---- MODULE Spec2Model ----
(***************************************************************************)
(* Model of the papers-rag ingestor (crates/papers-rag/src/ingest.rs):     *)
(* the structure-recovery walk over the flattened block stream and the     *)
(* delete / embed / insert sequence of ingest_paper against the two        *)
(* vector-store tables.                                                    *)
(*                                                                         *)
(* Strings that the code inspects character by character (HTML payloads,   *)
(* identifiers built with format!) are sequences of one-character strings. *)
(* Option<T> is a sequence of length 0 (None) or 1 (Some).                 *)
(***************************************************************************)
EXTENDS Integers, Sequences, FiniteSets, TLC

VARIABLES
    flat_blocks,   \* ingest_paper: the flattened block stream
    heading_map,   \* ingest_paper: block id -> stripped heading text
    pos,           \* number of blocks of flat_blocks the walk has processed
    phase,         \* position of the walk: "headings", "walk"
    walk,          \* the walk's locals (chapter_idx, section_idx, ...)
    chunks_tbl,    \* table papers_chunks: rows in insertion order
    figures_tbl,   \* table papers_figures: rows in insertion order
    calls,         \* per ingest_paper call: pc, params, records, result
    hist,          \* history of the calls (what the claims refer to)
    query,         \* the query operation of papers-rag in progress and its reply
    files,         \* the selections directory: names, inodes and their content
    sel            \* per caller of the selection store: pc, arguments, result

vars == <<flat_blocks, heading_map, pos, phase, walk, chunks_tbl, figures_tbl, calls, hist,
          query, files, sel>>

walk_vars == <<flat_blocks, heading_map, pos, phase, walk>>
store_vars == <<chunks_tbl, figures_tbl, calls, hist>>
query_vars == <<query>>
sel_vars == <<files, sel>>

-----------------------------------------------------------------------------
(* Bounds of the model *)

MaxBlocks == 4

-----------------------------------------------------------------------------
(* Option and string helpers *)

None == <<>>
Some(x) == <<x>>

unwrap_or(opt, dflt) == IF opt = None THEN dflt ELSE opt[1]

starts_with(s, prefix) ==
    /\ Len(s) >= Len(prefix)
    /\ SubSeq(s, 1, Len(prefix)) = prefix

\* str::find: the 1-based index of the first occurrence of pat in s, 0 if none
RECURSIVE find_from(_, _, _)
find_from(s, pat, i) ==
    IF i + Len(pat) - 1 > Len(s) THEN 0
    ELSE IF SubSeq(s, i, i + Len(pat) - 1) = pat THEN i
    ELSE find_from(s, pat, i + 1)

find(s, pat) == find_from(s, pat, 1)

is_whitespace(ch) == ch \in {" ", "\n", "\t"}

\* the first loop of strip_html: drop everything between '<' and '>'
RECURSIVE strip_tags(_, _, _)
strip_tags(html, i, in_tag) ==
    IF i > Len(html) THEN <<>>
    ELSE IF html[i] = "<" THEN strip_tags(html, i + 1, TRUE)
    ELSE IF html[i] = ">" THEN strip_tags(html, i + 1, FALSE)
    ELSE IF ~in_tag THEN <<html[i]>> \o strip_tags(html, i + 1, in_tag)
    ELSE strip_tags(html, i + 1, in_tag)

\* split_whitespace().collect().join(" "): pending is TRUE when a run of
\* whitespace has been passed after at least one emitted word
RECURSIVE normalize_ws(_, _, _, _)
normalize_ws(s, i, started, pending) ==
    IF i > Len(s) THEN <<>>
    ELSE IF is_whitespace(s[i]) THEN normalize_ws(s, i + 1, started, started)
    ELSE (IF pending THEN <<" ">> ELSE <<>>) \o <<s[i]>>
         \o normalize_ws(s, i + 1, TRUE, FALSE)

strip_html(html) == normalize_ws(strip_tags(html, 1, FALSE), 1, FALSE, FALSE)

\* str::trim().is_empty()
trim_is_empty(s) == \A i \in 1..Len(s) : is_whitespace(s[i])

extract_attr(html, attr) ==
    LET search == attr \o <<"=", "\"">>
        at == find(html, search)
    IN  IF at = 0 THEN None
        ELSE LET rest == SubSeq(html, at + Len(search), Len(html))
                 end == find(rest, <<"\"">>)
             IN  IF end = 0 THEN None ELSE Some(SubSeq(rest, 1, end - 1))

extract_img_src(html) == extract_attr(html, <<"s", "r", "c">>)
extract_img_alt(html) == extract_attr(html, <<"a", "l", "t">>)

\* Display of an unsigned integer in format!: decimal, no padding
Digit(d) == CASE d = 0 -> "0" [] d = 1 -> "1" [] d = 2 -> "2" [] d = 3 -> "3"
              [] d = 4 -> "4" [] d = 5 -> "5" [] d = 6 -> "6" [] d = 7 -> "7"
              [] d = 8 -> "8" [] d = 9 -> "9"

RECURSIVE Decimal(_)
Decimal(n) == IF n < 10 THEN <<Digit(n)>> ELSE Decimal(n \div 10) \o <<Digit(n % 10)>>

\* u16 arithmetic
U16Mod == 65536
AddU16(x, y) == (x + y) % U16Mod

-----------------------------------------------------------------------------
(* The walk of ingest_paper over the block stream *)

\* h_level with h5 counted among the section levels
h_level_h5_as_section(html) ==
    IF starts_with(html, <<"<", "h", "1">>) \/ starts_with(html, <<"<", "H", "1">>) THEN 1
    ELSE IF starts_with(html, <<"<", "h", "2">>) \/ starts_with(html, <<"<", "H", "2">>) THEN 2
    ELSE IF starts_with(html, <<"<", "h", "3">>) \/ starts_with(html, <<"<", "H", "3">>) THEN 3
    ELSE IF starts_with(html, <<"<", "h", "4">>) \/ starts_with(html, <<"<", "H", "4">>) THEN 4
    ELSE IF starts_with(html, <<"<", "h", "5">>) \/ starts_with(html, <<"<", "H", "5">>) THEN 4
    ELSE 6

h_level(html) ==
    IF starts_with(html, <<"<", "h", "1">>) \/ starts_with(html, <<"<", "H", "1">>) THEN 1
    ELSE IF starts_with(html, <<"<", "h", "2">>) \/ starts_with(html, <<"<", "H", "2">>) THEN 2
    ELSE IF starts_with(html, <<"<", "h", "3">>) \/ starts_with(html, <<"<", "H", "3">>) THEN 3
    ELSE IF starts_with(html, <<"<", "h", "4">>) \/ starts_with(html, <<"<", "H", "4">>) THEN 4
    ELSE IF starts_with(html, <<"<", "h", "5">>) \/ starts_with(html, <<"<", "H", "5">>) THEN 5
    ELSE 6

\* heading_map: HashMap<String, String>, a later insert of a key replaces it
RECURSIVE build_heading_map(_, _, _)
build_heading_map(blocks, i, m) ==
    IF i > Len(blocks) THEN m
    ELSE LET block == blocks[i]
         IN  IF block.block_type = "SectionHeader" /\ block.id # None
             THEN build_heading_map(blocks, i + 1,
                      [k \in DOMAIN m \cup {block.id[1]} |->
                          IF k = block.id[1] THEN strip_html(block.html) ELSE m[k]])
             ELSE build_heading_map(blocks, i + 1, m)

EmptyMap == [k \in {} |-> <<>>]

\* heading_map.get(block_id).cloned().unwrap_or_default()
heading_text(hm, block) ==
    LET block_id == unwrap_or(block.id, "")
    IN  IF block_id \in DOMAIN hm THEN hm[block_id] ELSE <<>>

InitWalkLocals ==
    [ chapter_idx |-> 0,
      section_idx |-> 0,
      current_chapter_title |-> <<>>,
      current_section_title |-> <<>>,
      chunk_idx |-> 0,
      figure_seq |-> 0,
      chunk_records |-> <<>>,
      figure_records |-> <<>>,
      last_section_key |-> <<0, 0>> ]

SkippedBlockTypes ==
    {"Page", "PageHeader", "PageFooter", "TableOfContents", "Caption", "Picture"}

\* new_chapter that forgets `section_idx = 0`
new_chapter_keeps_section(w, hm, block) ==
    [w EXCEPT !.chapter_idx = AddU16(w.chapter_idx, 1),
              !.chunk_idx = 0,
              !.current_chapter_title = heading_text(hm, block),
              !.current_section_title = <<>>,
              !.last_section_key = <<AddU16(w.chapter_idx, 1), w.section_idx>>]

new_chapter(w, hm, block) ==
    [w EXCEPT !.chapter_idx = AddU16(w.chapter_idx, 1),
              !.section_idx = 0,
              !.chunk_idx = 0,
              !.current_chapter_title = heading_text(hm, block),
              !.current_section_title = <<>>,
              !.last_section_key = <<AddU16(w.chapter_idx, 1), 0>>]

\* new_section that forgets `chunk_idx = 0`
new_section_keeps_chunk_idx(w, hm, block) ==
    [w EXCEPT !.section_idx = AddU16(w.section_idx, 1),
              !.current_section_title = heading_text(hm, block),
              !.last_section_key = <<w.chapter_idx, AddU16(w.section_idx, 1)>>]

\* new_section that leaves last_section_key behind
new_section_stale_key(w, hm, block) ==
    [w EXCEPT !.section_idx = AddU16(w.section_idx, 1),
              !.chunk_idx = 0,
              !.current_section_title = heading_text(hm, block)]

new_section(w, hm, block) ==
    [w EXCEPT !.section_idx = AddU16(w.section_idx, 1),
              !.chunk_idx = 0,
              !.current_section_title = heading_text(hm, block),
              !.last_section_key = <<w.chapter_idx, AddU16(w.section_idx, 1)>>]

\* on_section_header that lets an h1 open a chapter
on_section_header_h1_chapter(w, hm, block) ==
    LET lvl == h_level(block.html)
    IN  IF lvl \in {5, 6} THEN w
        ELSE IF lvl \in {1, 2} THEN new_chapter(w, hm, block)
        ELSE new_section(w, hm, block)

on_section_header(w, hm, block) ==
    LET lvl == h_level(block.html)
    IN  IF lvl \in {1, 5, 6} THEN w
        ELSE IF lvl = 2 THEN new_chapter(w, hm, block)
        ELSE new_section(w, hm, block)

format_chunk_id(paper_id, chapter_idx, section_idx, chunk_idx) ==
    paper_id \o <<"/", "c", "h">> \o Decimal(chapter_idx)
             \o <<"/", "s">> \o Decimal(section_idx)
             \o <<"/", "p">> \o Decimal(chunk_idx)

\* format_figure_id numbering from 0
format_figure_id_zero_based(paper_id, figure_seq) ==
    paper_id \o <<"/", "f", "i", "g">> \o Decimal(figure_seq - 1)

format_figure_id(paper_id, figure_seq) ==
    paper_id \o <<"/", "f", "i", "g">> \o Decimal(figure_seq)

\* on_text that counts a block without text as a chunk position
on_text_counts_empty(w, params, block) ==
    IF trim_is_empty(strip_html(block.html))
    THEN [w EXCEPT !.chunk_idx = AddU16(w.chunk_idx, 1)]
    ELSE [w EXCEPT
            !.chunk_records = Append(@,
                [ chunk_id |-> format_chunk_id(params.paper_id, w.chapter_idx,
                                               w.section_idx, w.chunk_idx),
                  chapter_title |-> w.current_chapter_title,
                  chapter_idx |-> w.chapter_idx,
                  section_title |-> w.current_section_title,
                  section_idx |-> w.section_idx,
                  chunk_idx |-> w.chunk_idx,
                  text |-> strip_html(block.html),
                  page |-> block.page,
                  figure_ids |-> <<>> ]),
            !.chunk_idx = AddU16(w.chunk_idx, 1)]

on_text(w, params, block) ==
    LET text == strip_html(block.html)
        section_key == <<w.chapter_idx, w.section_idx>>
        idx == IF section_key # w.last_section_key THEN 0 ELSE w.chunk_idx
    IN  IF trim_is_empty(text) THEN w
        ELSE [w EXCEPT
                !.last_section_key = section_key,
                !.chunk_records = Append(@,
                    [ chunk_id |-> format_chunk_id(params.paper_id, w.chapter_idx,
                                                   w.section_idx, idx),
                      chapter_title |-> w.current_chapter_title,
                      chapter_idx |-> w.chapter_idx,
                      section_title |-> w.current_section_title,
                      section_idx |-> w.section_idx,
                      chunk_idx |-> idx,
                      text |-> text,
                      page |-> block.page,
                      figure_ids |-> <<>> ]),
                !.chunk_idx = AddU16(idx, 1)]

on_figure(w, params, block) ==
    LET caption == unwrap_or(extract_img_alt(block.html), <<>>)
        src == extract_img_src(block.html)
        image_path == IF src = None THEN None
                      ELSE Some(<<params.cache_dir, "images", src[1]>>)
        figure_type == IF block.block_type = "Table" THEN "table" ELSE "figure"
        seq == AddU16(w.figure_seq, 1)
    IN  [w EXCEPT
            !.figure_seq = seq,
            !.figure_records = Append(@,
                [ figure_id |-> format_figure_id(params.paper_id, seq),
                  figure_type |-> figure_type,
                  caption |-> caption,
                  image_path |-> image_path,
                  page |-> block.page,
                  chapter_idx |-> w.chapter_idx,
                  section_idx |-> w.section_idx ])]

\* one iteration of `for block in &flat_blocks`
process_block(w, params, hm, block) ==
    IF block.block_type \in SkippedBlockTypes THEN w
    ELSE IF block.block_type = "SectionHeader" THEN on_section_header(w, hm, block)
    ELSE IF block.block_type \in {"Text", "ListGroup", "Equation"} THEN on_text(w, params, block)
    ELSE IF block.block_type \in {"Figure", "Table"} THEN on_figure(w, params, block)
    ELSE w

-----------------------------------------------------------------------------
(* Block streams the specifications draw their inputs from *)

Elem(tag, body) == <<"<">> \o tag \o <<">">> \o body \o <<"<", "/">> \o tag \o <<">">>

Img(src, alt) ==
    <<"<", "i", "m", "g", " ", "s", "r", "c", "=", "\"">> \o src
    \o <<"\"", " ", "a", "l", "t", "=", "\"">> \o alt \o <<"\"", "/", ">">>

Block(type, id, html) == [block_type |-> type, id |-> id, page |-> Some(0), html |-> html]

BlkH1 == Block("SectionHeader", Some("sh1"), Elem(<<"h", "1">>, <<"T">>))
BlkH2 == Block("SectionHeader", Some("sh2"), Elem(<<"h", "2">>, <<"A">>))
BlkH3 == Block("SectionHeader", Some("sh3"), Elem(<<"h", "3">>, <<"B">>))
BlkH4 == Block("SectionHeader", Some("sh4"), Elem(<<"H", "4">>, <<"C">>))
BlkH5 == Block("SectionHeader", Some("sh5"), Elem(<<"h", "5">>, <<"D">>))
BlkH6 == Block("SectionHeader", Some("sh6"), Elem(<<"h", "6">>, <<"E">>))
BlkHUnknown == Block("SectionHeader", Some("shp"), Elem(<<"p">>, <<"F">>))
BlkHMissing == Block("SectionHeader", None, <<>>)
BlkText == Block("Text", Some("t0"), Elem(<<"p">>, <<"x", " ", " ", "y">>))
BlkList == Block("ListGroup", Some("lg0"),
                 Elem(<<"u", "l">>, Elem(<<"l", "i">>, <<"a">>) \o Elem(<<"l", "i">>, <<"b">>)))
BlkEmptyText == Block("Equation", Some("eq0"), Elem(<<"p">>, <<" ">>))
BlkFigure == Block("Figure", Some("fig"), Img(<<"f", ".", "p", "n", "g">>, <<"F", "1">>))
BlkTable == Block("Table", Some("tbl"), Img(<<"t", ".", "p", "n", "g">>, <<"T", "1">>))
BlkFigureBare == Block("Figure", None, <<>>)
BlkCaption == Block("Caption", Some("cap"), Elem(<<"p">>, <<"c">>))
BlkPicture == Block("Picture", Some("pic"), Img(<<"p", ".", "p", "n", "g">>, <<"P">>))
BlkOther == Block("Code", Some("code"), Elem(<<"p">>, <<"k">>))
BlkH2Shared == Block("SectionHeader", Some("sh2"), Elem(<<"h", "2">>, <<"Z">>))
BlkH2NoId == Block("SectionHeader", None, Elem(<<"h", "2">>, <<"N">>))
BlkH3Shared == Block("SectionHeader", Some("sh3"), Elem(<<"h", "3">>, <<"Y">>))
BlkPage == Block("Page", Some("pg"), Elem(<<"p">>, <<"g">>))
BlkPageHeader == Block("PageHeader", Some("ph"), Elem(<<"p">>, <<"h">>))
BlkPageFooter == Block("PageFooter", Some("pf"), Elem(<<"p">>, <<"f">>))
BlkToc == Block("TableOfContents", Some("toc"), Elem(<<"p">>, <<"t">>))
BlkEmptyList == Block("ListGroup", Some("lg1"), Elem(<<"u", "l">>, <<>>))

\* all block sequences over `alphabet` of length at most n
Streams(alphabet, n) == UNION {[1..k -> alphabet] : k \in 0..n}

WalkParams == [paper_id |-> <<"P">>, cache_dir |-> "cache/K"]

\* headings of every level and text: the inputs of the structure recovery
WalkAlphabet ==
    {BlkH1, BlkH2, BlkH3, BlkH4, BlkH5, BlkH6, BlkHUnknown, BlkHMissing,
     BlkText, BlkEmptyText}

\* figures, tables and the block types around them: the inputs of the numbering
FigureAlphabet ==
    {BlkH2, BlkH3, BlkList, BlkFigure, BlkTable, BlkFigureBare, BlkCaption,
     BlkPicture, BlkOther}

\* headers that share an id or carry none, and text: the inputs of the titles
TitleAlphabet == {BlkH2, BlkH2Shared, BlkH2NoId, BlkH3, BlkH3Shared, BlkText}

\* every block type that emits nothing, around a header, a text and a figure
FrameAlphabet ==
    {BlkH2, BlkH3, BlkText, BlkEmptyText, BlkEmptyList, BlkFigure, BlkPage,
     BlkPageHeader, BlkPageFooter, BlkToc, BlkCaption, BlkPicture, BlkOther}

-----------------------------------------------------------------------------
(* ingest_paper against the store *)

MaxCalls == 3

Procs == {1, 2}

\* an escape that drops the quotes instead of doubling them
RECURSIVE sql_escape_drop_quote(_)
sql_escape_drop_quote(str) ==
    IF str = <<>> THEN <<>>
    ELSE (IF Head(str) = "'" THEN <<>> ELSE <<Head(str)>>)
         \o sql_escape_drop_quote(Tail(str))

\* paper_id.replace('\'', "''")
RECURSIVE sql_escape(_)
sql_escape(str) ==
    IF str = <<>> THEN <<>>
    ELSE (IF Head(str) = "'" THEN <<"'", "'">> ELSE <<Head(str)>>) \o sql_escape(Tail(str))

\* the value the store reads back from the body of a quoted SQL literal
RECURSIVE sql_unescape(_)
sql_unescape(lit) ==
    IF lit = <<>> THEN <<>>
    ELSE IF Len(lit) >= 2 /\ lit[1] = "'" /\ lit[2] = "'"
         THEN <<"'">> \o sql_unescape(SubSeq(lit, 3, Len(lit)))
    ELSE <<Head(lit)>> \o sql_unescape(Tail(lit))

\* format!("paper_id = '{paper_id_esc}'")
delete_filter(paper_id) == [column |-> "paper_id", literal |-> sql_escape(paper_id)]

filter_matches(row, filter) == row[filter.column] = sql_unescape(filter.literal)

\* Table::delete that drops nothing
table_delete_nothing(tbl, filter) == tbl

\* Table::delete(filter)
table_delete(tbl, filter) == SelectSeq(tbl, LAMBDA row : ~filter_matches(row, filter))

\* Table::add(batch)
table_add(tbl, batch) == tbl \o batch

\* the flattening loop over root.children[*].children[*]
RECURSIVE flatten(_)
flatten(pages) == IF pages = <<>> THEN <<>> ELSE Head(pages) \o flatten(Tail(pages))

RECURSIVE walk_blocks(_, _, _, _, _)
walk_blocks(w, params, hm, blocks, i) ==
    IF i > Len(blocks) THEN w
    ELSE walk_blocks(process_block(w, params, hm, blocks[i]), params, hm, blocks, i + 1)

\* lines 147-337 of ingest_paper as a function of the parsed document
extract(params, pages) ==
    LET blocks == flatten(pages)
    IN  walk_blocks(InitWalkLocals, params, build_heading_map(blocks, 1, EmptyMap), blocks, 1)

\* the rows of the record batch (the vector, authors, venue and tags columns,
\* which no step below reads, are left out)
build_chunks_batch(params, records) ==
    [i \in 1..Len(records) |->
        [ chunk_id |-> records[i].chunk_id,
          paper_id |-> params.paper_id,
          chapter_title |-> records[i].chapter_title,
          chapter_idx |-> records[i].chapter_idx,
          section_title |-> records[i].section_title,
          section_idx |-> records[i].section_idx,
          chunk_idx |-> records[i].chunk_idx,
          depth |-> "paragraph",
          text |-> records[i].text,
          page_start |-> records[i].page,
          page_end |-> records[i].page,
          title |-> params.title,
          year |-> params.year,
          figure_ids |-> records[i].figure_ids ]]

build_figures_batch(params, records) ==
    [i \in 1..Len(records) |->
        [ figure_id |-> records[i].figure_id,
          paper_id |-> params.paper_id,
          figure_type |-> records[i].figure_type,
          caption |-> records[i].caption,
          description |-> records[i].caption,
          image_path |-> records[i].image_path,
          page |-> records[i].page,
          chapter_idx |-> records[i].chapter_idx,
          section_idx |-> records[i].section_idx,
          title |-> params.title,
          year |-> params.year ]]

NoParams == [item_key |-> "", paper_id |-> <<>>, title |-> "", year |-> None, cache_dir |-> ""]

IdleCall ==
    [ pc |-> "idle",
      params |-> NoParams,
      chunk_records |-> <<>>,
      figure_records |-> <<>>,
      result |-> "none" ]

\* no query operation of papers-rag has been called
IdleQuery == [op |-> "idle"]

InitQueryIdle == query = IdleQuery

\* a string as the sequence of its characters
Chars(str) == [i \in 1..Len(str) |-> SubSeq(str, i, i)]

\* the selection names of the model
SelNames == {Chars("a"), Chars("B"), Chars("2")}

\* the selections directory: each file's content, and for each name the
\* selection of its latest completed save, None after a delete
EmptyFs == [dir |-> <<>>, last |-> [name \in SelNames |-> None]]

\* An open file is named by the path its inode has now, or is Orphan once
\* the inode has no name left; the directory has no hard links.
Orphan == <<<<>>, "orphan">>

Pending == [ok |-> FALSE, err |-> "pending"]

\* a caller of the selection store: its position, its call and what the
\* call has seen and done so far
Caller(pc, op, name, path) ==
    [ pc |-> pc, op |-> op, name |-> name, path |-> path,
      value |-> None, content |-> <<>>, fd |-> Orphan,
      result |-> Pending, seen |-> None, installed |-> None ]

IdleCaller == Caller("idle", "none", <<>>, Orphan)

\* the selections directory does not exist yet and no caller uses it
InitSelIdle ==
    /\ files = EmptyFs
    /\ sel = [p \in Procs |-> IdleCaller]

InitHist ==
    [ n_calls |-> 0,
      store_failed |-> [p \in Procs |-> FALSE],
      before |-> [p \in Procs |-> [chunks |-> <<>>, figures |-> <<>>]],
      last_chunk_commit |-> 0,
      last_figure_commit |-> 0,
      chunk_delete_after_commit |-> FALSE,
      figure_delete_after_commit |-> FALSE ]

InitStore ==
    /\ chunks_tbl = <<>>
    /\ figures_tbl = <<>>
    /\ calls = [p \in Procs |-> IdleCall]
    /\ hist = InitHist

rows_of(tbl, paper_id) == SelectSeq(tbl, LAMBDA row : row.paper_id = paper_id)

Returned(self, res) == [calls EXCEPT ![self].pc = "returned", ![self].result = res]

Goto(self, label) == [calls EXCEPT ![self].pc = label]

\* lines 143-348: read and parse the cached document, walk its blocks
Start(self, params, file) ==
    /\ calls[self].pc \in {"idle", "returned"}
    /\ calls' = [calls EXCEPT ![self] =
          IF file.kind = "missing"
          THEN [IdleCall EXCEPT !.pc = "returned", !.params = params, !.result = "Err(Io)"]
          ELSE IF file.kind = "malformed"
          THEN [IdleCall EXCEPT !.pc = "returned", !.params = params, !.result = "Err(Json)"]
          ELSE LET w == extract(params, file.pages)
               IN  [ pc |-> "delete_chunks",
                     params |-> params,
                     chunk_records |-> w.chunk_records,
                     figure_records |-> w.figure_records,
                     result |-> "none" ]]
    /\ hist' = [hist EXCEPT
          !.n_calls = @ + 1,
          !.store_failed[self] = FALSE,
          !.before[self] = [chunks |-> rows_of(chunks_tbl, params.paper_id),
                            figures |-> rows_of(figures_tbl, params.paper_id)]]
    /\ UNCHANGED <<chunks_tbl, figures_tbl, walk_vars, query_vars, sel_vars>>

\* lines 353-355: open the chunks table and delete the paper's rows; an error
\* of either is dropped
DeleteChunks(self) ==
    /\ calls[self].pc = "delete_chunks"
    /\ \E fails \in BOOLEAN : LET ok == ~fails IN
          /\ chunks_tbl' = IF ok THEN table_delete(chunks_tbl,
                                          delete_filter(calls[self].params.paper_id))
                           ELSE chunks_tbl
          /\ hist' = [hist EXCEPT !.store_failed[self] = @ \/ ~ok,
                                   !.chunk_delete_after_commit = @ \/ ok]
    /\ calls' = Goto(self, "delete_figures")
    /\ UNCHANGED <<figures_tbl, walk_vars, query_vars, sel_vars>>

\* lines 356-358
DeleteFigures(self) ==
    /\ calls[self].pc = "delete_figures"
    /\ \E fails \in BOOLEAN : LET ok == ~fails IN
          /\ figures_tbl' = IF ok THEN table_delete(figures_tbl,
                                           delete_filter(calls[self].params.paper_id))
                            ELSE figures_tbl
          /\ hist' = [hist EXCEPT !.store_failed[self] = @ \/ ~ok,
                                   !.figure_delete_after_commit = @ \/ ok]
    /\ calls' = Goto(self, "embed_chunks")
    /\ UNCHANGED <<chunks_tbl, walk_vars, query_vars, sel_vars>>

\* lines 361-373: embed the chunk texts unless there is none
EmbedChunks(self) ==
    /\ calls[self].pc = "embed_chunks"
    /\ \E fails \in BOOLEAN : LET ok == ~fails IN
          calls' = IF calls[self].chunk_records = <<>> \/ ok
                   THEN Goto(self, "embed_figures")
                   ELSE Returned(self, "Err(Embed)")
    /\ UNCHANGED <<chunks_tbl, figures_tbl, hist, walk_vars, query_vars, sel_vars>>

\* lines 376-388
EmbedFigures(self) ==
    /\ calls[self].pc = "embed_figures"
    /\ \E fails \in BOOLEAN : LET ok == ~fails IN
          calls' = IF calls[self].figure_records = <<>> \/ ok
                   THEN Goto(self, "insert_chunks")
                   ELSE Returned(self, "Err(Embed)")
    /\ UNCHANGED <<chunks_tbl, figures_tbl, hist, walk_vars, query_vars, sel_vars>>

\* lines 391-401: append the chunk rows as one batch unless there is none
InsertChunks(self) ==
    /\ calls[self].pc = "insert_chunks"
    /\ \E fails \in BOOLEAN : LET ok == ~fails IN
          IF calls[self].chunk_records = <<>>
          THEN /\ calls' = Goto(self, "insert_figures")
               /\ UNCHANGED <<chunks_tbl, hist>>
          ELSE IF ok
          THEN /\ chunks_tbl' = table_add(chunks_tbl,
                      build_chunks_batch(calls[self].params, calls[self].chunk_records))
               /\ calls' = Goto(self, "insert_figures")
               /\ hist' = [hist EXCEPT !.last_chunk_commit = self,
                                        !.chunk_delete_after_commit = FALSE]
          ELSE /\ calls' = Returned(self, "Err(LanceDb)")
               /\ hist' = [hist EXCEPT !.store_failed[self] = TRUE]
               /\ UNCHANGED chunks_tbl
    /\ UNCHANGED <<figures_tbl, walk_vars, query_vars, sel_vars>>

\* lines 404-424: append the figure rows, then return Ok(IngestStats)
InsertFigures(self) ==
    /\ calls[self].pc = "insert_figures"
    /\ \E fails \in BOOLEAN : LET ok == ~fails IN
          IF calls[self].figure_records = <<>>
          THEN /\ calls' = Returned(self, "Ok")
               /\ UNCHANGED <<figures_tbl, hist>>
          ELSE IF ok
          THEN /\ figures_tbl' = table_add(figures_tbl,
                      build_figures_batch(calls[self].params, calls[self].figure_records))
               /\ calls' = Returned(self, "Ok")
               /\ hist' = [hist EXCEPT !.last_figure_commit = self,
                                        !.figure_delete_after_commit = FALSE]
          ELSE /\ calls' = Returned(self, "Err(LanceDb)")
               /\ hist' = [hist EXCEPT !.store_failed[self] = TRUE]
               /\ UNCHANGED figures_tbl
    /\ UNCHANGED <<chunks_tbl, walk_vars, query_vars, sel_vars>>

\* IngestStats of a returned call
chunks_added(self) == Len(calls[self].chunk_records)
figures_added(self) == Len(calls[self].figure_records)

\* list_papers, default parameters: the aggregation of the chunk rows by
\* paper_id and the figure count of each paper that has chunk rows
paper_map ==
    [pid \in {chunks_tbl[i].paper_id : i \in 1..Len(chunks_tbl)} |->
        [ chunk_count |-> Len(rows_of(chunks_tbl, pid)),
          figure_count |-> Len(rows_of(figures_tbl, pid)) ]]

-----------------------------------------------------------------------------
(* Cached documents and parameters the store specifications draw from *)

Params(item_key, paper_id) ==
    [ item_key |-> item_key,
      paper_id |-> paper_id,
      title |-> "Title " \o item_key,
      year |-> Some(2020),
      cache_dir |-> "cache/" \o item_key ]

ParsedFile(pages) == [kind |-> "ok", pages |-> pages]
MissingFile == [kind |-> "missing", pages |-> <<>>]
MalformedFile == [kind |-> "malformed", pages |-> <<>>]

DocTextFigure == ParsedFile(<< <<BlkText>>, <<BlkFigure, BlkCaption>> >>)
DocSections == ParsedFile(<< <<BlkH2, BlkList, BlkH3>>, <<BlkText, BlkTable>> >>)
DocFigureOnly == ParsedFile(<< <<BlkH1, BlkTable>> >>)
DocEmpty == ParsedFile(<<>>)

CacheFiles == {MissingFile, MalformedFile, DocTextFigure, DocSections, DocFigureOnly, DocEmpty}

StoreParams == {Params("K1", <<"P">>), Params("K2", <<"Q">>)}

-----------------------------------------------------------------------------
(* Specification of ingests run one at a time by one caller *)

InitSeq ==
    /\ flat_blocks = <<>>
    /\ heading_map = EmptyMap
    /\ pos = 0
    /\ phase = "store"
    /\ walk = InitWalkLocals
    /\ InitStore
    /\ InitQueryIdle
    /\ InitSelIdle

StartNextCall ==
    /\ hist.n_calls < MaxCalls
    /\ \E params \in StoreParams, file \in CacheFiles : Start(1, params, file)

NextSeq ==
    \/ StartNextCall
    \/ DeleteChunks(1)
    \/ DeleteFigures(1)
    \/ EmbedChunks(1)
    \/ EmbedFigures(1)
    \/ InsertChunks(1)
    \/ InsertFigures(1)

SpecSeq == InitSeq /\ [][NextSeq]_vars

-----------------------------------------------------------------------------
(* Specification of ingests of papers whose ids differ only by single quotes *)

QuotedParams ==
    {Params("K1", <<"P">>), Params("K2", <<"P", "'">>), Params("K3", <<"'", "P", "'">>)}

QuotedFiles == {MissingFile, DocTextFigure, DocSections}

StartQuotedCall ==
    /\ hist.n_calls < MaxCalls
    /\ \E params \in QuotedParams, file \in QuotedFiles : Start(1, params, file)

NextQuoted ==
    \/ StartQuotedCall
    \/ DeleteChunks(1)
    \/ DeleteFigures(1)
    \/ EmbedChunks(1)
    \/ EmbedFigures(1)
    \/ InsertChunks(1)
    \/ InsertFigures(1)

SpecQuoted == InitSeq /\ [][NextQuoted]_vars

-----------------------------------------------------------------------------
(* Specification of two concurrent ingests of the same paper_id: each await *)
(* of a store or embedder operation is a point where the other call may run *)

ConcParams == Params("K1", <<"P">>)

ConcFiles == {DocTextFigure, DocSections, DocFigureOnly, DocEmpty}

InitConc ==
    /\ flat_blocks = <<>>
    /\ heading_map = EmptyMap
    /\ pos = 0
    /\ phase = "store"
    /\ walk = InitWalkLocals
    \* the rows an earlier, completed ingest of the paper left behind
    /\ \E earlier \in {DocEmpty, DocTextFigure} :
          LET w == extract(ConcParams, earlier.pages)
          IN  /\ chunks_tbl = build_chunks_batch(ConcParams, w.chunk_records)
              /\ figures_tbl = build_figures_batch(ConcParams, w.figure_records)
    /\ calls = [p \in Procs |-> IdleCall]
    /\ hist = InitHist
    /\ InitQueryIdle
    /\ InitSelIdle

StartConcurrent(self) ==
    /\ calls[self].pc = "idle"
    /\ \E file \in ConcFiles : Start(self, ConcParams, file)

NextConc ==
    \E self \in Procs :
        \/ StartConcurrent(self)
        \/ DeleteChunks(self)
        \/ DeleteFigures(self)
        \/ EmbedChunks(self)
        \/ EmbedFigures(self)
        \/ InsertChunks(self)
        \/ InsertFigures(self)

SpecConc == InitConc /\ [][NextConc]_vars

-----------------------------------------------------------------------------
(* Specification of the walk *)


InitWalkOver(alphabet) ==
    /\ flat_blocks \in Streams(alphabet, MaxBlocks)
    /\ heading_map = EmptyMap
    /\ pos = 0
    /\ phase = "headings"
    /\ walk = InitWalkLocals
    /\ InitStore
    /\ InitQueryIdle
    /\ InitSelIdle

InitWalk == InitWalkOver(WalkAlphabet)

InitFigures == InitWalkOver(FigureAlphabet)

BuildHeadingMap ==
    /\ phase = "headings"
    /\ heading_map' = build_heading_map(flat_blocks, 1, EmptyMap)
    /\ phase' = "walk"
    /\ UNCHANGED <<flat_blocks, pos, walk, store_vars, query_vars, sel_vars>>

WalkBlock ==
    /\ phase = "walk"
    /\ pos < Len(flat_blocks)
    /\ walk' = process_block(walk, WalkParams, heading_map, flat_blocks[pos + 1])
    /\ pos' = pos + 1
    /\ UNCHANGED <<flat_blocks, heading_map, phase, store_vars, query_vars, sel_vars>>

NextWalk == BuildHeadingMap \/ WalkBlock

SpecWalk == InitWalk /\ [][NextWalk]_vars

SpecFigures == InitFigures /\ [][NextWalk]_vars

InitTitles == InitWalkOver(TitleAlphabet)

SpecTitles == InitTitles /\ [][NextWalk]_vars

InitFrame == InitWalkOver(FrameAlphabet)

SpecFrame == InitFrame /\ [][NextWalk]_vars

-----------------------------------------------------------------------------
(* What a block stream prescribes, read off the stream itself *)

Max(S) == CHOOSE x \in S : \A y \in S : y <= x

Range(seq) == {seq[i] : i \in 1..Len(seq)}

HeadingTagIn(b, digits) ==
    /\ b.block_type = "SectionHeader"
    /\ \E h \in {"h", "H"}, d \in digits : starts_with(b.html, <<"<", h, d>>)

IsChapterHeader(b) == HeadingTagIn(b, {"2"})
IsSectionHeader(b) == HeadingTagIn(b, {"3", "4"})
NoOpHeader(b) == b.block_type = "SectionHeader" /\ ~HeadingTagIn(b, {"2", "3", "4"})

EmitsChunk(b) ==
    /\ b.block_type \in {"Text", "ListGroup", "Equation"}
    /\ strip_html(b.html) # <<>>

IsFigureBlock(b) == b.block_type \in {"Figure", "Table"}

\* number of h2 headers among the first n blocks
ChaptersIn(n) == Cardinality({i \in 1..n : IsChapterHeader(flat_blocks[i])})

LastChapterAt(n) == Max({0} \cup {i \in 1..n : IsChapterHeader(flat_blocks[i])})

\* number of h3/h4 headers among the first n blocks since the last h2
SectionsIn(n) ==
    Cardinality({i \in (LastChapterAt(n) + 1)..n : IsSectionHeader(flat_blocks[i])})

LastHeaderAt(n) ==
    Max({0} \cup {i \in 1..n : IsChapterHeader(flat_blocks[i])
                              \/ IsSectionHeader(flat_blocks[i])})

\* number of chunk-emitting blocks among the first n since the last h2/h3/h4
ChunksSinceHeader(n) ==
    Cardinality({i \in (LastHeaderAt(n) + 1)..n : EmitsChunk(flat_blocks[i])})

EmitPositions(n) == {i \in 1..n : EmitsChunk(flat_blocks[i])}
FigurePositions(n) == {i \in 1..n : IsFigureBlock(flat_blocks[i])}

\* the j-th smallest element of a set of positions
Nth(S, j) == CHOOSE i \in S : Cardinality({k \in S : k <= i}) = j

WalkDone == phase = "walk" /\ pos = Len(flat_blocks)

ChapterSet == {r.chapter_idx : r \in Range(walk.chunk_records)}

SectionKeys == {<<r.chapter_idx, r.section_idx>> : r \in Range(walk.chunk_records)}

\* {} (no chunk), {0}, {0..M} or {1..M}
ContiguousChapters(S) ==
    \/ S = {}
    \/ S = {0}
    \/ \E M \in S : M >= 1 /\ (S = 0..M \/ S = 1..M)

\* every h2 chapter of the stream holds a chunk-emitting block
EveryChapterHasText ==
    \A c \in 1..ChaptersIn(pos) : \E i \in EmitPositions(pos) : ChaptersIn(i) = c

-----------------------------------------------------------------------------
(* Claims about the walk *)

\* C1: after any prefix of blocks chapter_idx is the number of h2 headers in
\* the prefix, section_idx the number of h3/h4 headers since the last h2, and
\* the j-th chunk carries the chapter_idx and section_idx current at the j-th
\* emitting block, with chunk_idx the number of chunks emitted since the most
\* recent h2/h3/h4 header.
C1_WalkCounters ==
    /\ walk.chapter_idx = ChaptersIn(pos)
    /\ walk.section_idx = SectionsIn(pos)
    /\ Len(walk.chunk_records) = Cardinality(EmitPositions(pos))
    /\ \A j \in 1..Len(walk.chunk_records) :
          LET i == Nth(EmitPositions(pos), j)
              r == walk.chunk_records[j]
          IN  /\ r.chapter_idx = ChaptersIn(i)
              /\ r.section_idx = SectionsIn(i)
              /\ r.chunk_idx = ChunksSinceHeader(i - 1)

C1_Witness ==
    \E j \in 1..Len(walk.chunk_records) :
        /\ walk.chunk_records[j].chapter_idx = 1
        /\ walk.chunk_records[j].section_idx = 1
        /\ walk.chunk_records[j].chunk_idx = 1

\* C2: for every (chapter_idx, section_idx) occurring among the chunk
\* records of an ingest, the chunk_idx values of the records with that pair
\* are exactly 0..K-1 for some K >= 1, each once.
C2_ChunkIdxDense ==
    \A key \in SectionKeys :
        LET js == {j \in 1..Len(walk.chunk_records) :
                      <<walk.chunk_records[j].chapter_idx,
                        walk.chunk_records[j].section_idx>> = key}
            K == Cardinality(js)
        IN  /\ K >= 1
            /\ {walk.chunk_records[j].chunk_idx : j \in js} = 0..(K - 1)

C2_Witness ==
    /\ WalkDone
    /\ Cardinality(SectionKeys) >= 2
    /\ \E r \in Range(walk.chunk_records) : r.chunk_idx = 1

\* C3 as stated: at the end of the walk the chapter_idx values that occur
\* among the chunks are {0}, {0..M} or {1..M} (or none, when there is no chunk).
C3_ChaptersContiguous == WalkDone => ContiguousChapters(ChapterSet)

\* C3 amended: chapter c carries chunks exactly when a chunk-emitting block
\* lies in it, so the chapter indices are contiguous when every h2 chapter of
\* the stream holds such a block, and have a gap at each chapter that does not.
C3_ChaptersWithText ==
    WalkDone =>
        /\ ChapterSet = {c \in 0..ChaptersIn(pos) :
                            \E i \in EmitPositions(pos) : ChaptersIn(i) = c}
        /\ EveryChapterHasText => ContiguousChapters(ChapterSet)

C3_Witness == WalkDone /\ EveryChapterHasText /\ ChapterSet = {1, 2}

\* C8: a SectionHeader whose tag is none of h2, h3, h4 (h1, h5, h6, unknown
\* or missing) changes nothing: the indices, the titles and the records
\* emitted so far stay as they are.
C8_NoOpHeadersChangeNothing ==
    [][ (phase = "walk" /\ pos < Len(flat_blocks) /\ NoOpHeader(flat_blocks[pos + 1]))
            => walk' = walk ]_vars

C8_Witness ==
    /\ phase = "walk"
    /\ pos >= 1
    /\ NoOpHeader(flat_blocks[pos])
    /\ walk.chapter_idx = 1
    /\ walk.section_idx = 1
    /\ walk.chunk_idx = 1

\* C9: the k-th Figure or Table block gets figure id {paper_id}/fig{k}, so the
\* ids are fig1..figN and pairwise distinct; its type is "table" for a Table
\* and "figure" for a Figure; Caption and Picture blocks take no number.
C9_FigureNumbering ==
    /\ Len(walk.figure_records) = Cardinality(FigurePositions(pos))
    /\ \A k \in 1..Len(walk.figure_records) :
          LET b == flat_blocks[Nth(FigurePositions(pos), k)]
              r == walk.figure_records[k]
          IN  /\ r.figure_id = WalkParams.paper_id \o <<"/", "f", "i", "g">> \o Decimal(k)
              /\ r.figure_type = IF b.block_type = "Table" THEN "table" ELSE "figure"
    /\ \A k, l \in 1..Len(walk.figure_records) :
          k # l => walk.figure_records[k].figure_id # walk.figure_records[l].figure_id

C9_Witness ==
    /\ Len(walk.figure_records) = 2
    /\ walk.figure_records[1].figure_type = "figure"
    /\ walk.figure_records[2].figure_type = "table"
    /\ \E i, j \in 1..pos :
          /\ i < j
          /\ IsFigureBlock(flat_blocks[j])
          /\ flat_blocks[i].block_type \in {"Caption", "Picture"}

-----------------------------------------------------------------------------
(* Claims about the titles and about the blocks that emit nothing *)

LastSectionAt(n) ==
    Max({0} \cup {i \in (LastChapterAt(n) + 1)..n : IsSectionHeader(flat_blocks[i])})

\* the stripped text of the most recent h2 among the first n blocks
ChapterTitleAt(n) ==
    IF LastChapterAt(n) = 0 THEN <<>>
    ELSE strip_html(flat_blocks[LastChapterAt(n)].html)

\* the stripped text of the most recent h3/h4 since that h2
SectionTitleAt(n) ==
    IF LastSectionAt(n) = 0 THEN <<>>
    ELSE strip_html(flat_blocks[LastSectionAt(n)].html)

\* C29: for every block stream, headers without an id and headers sharing
\* an id included, each chunk's chapter_title is the stripped text of the most
\* recent h2 header before it (empty before the first h2) and its
\* section_title the stripped text of the most recent h3/h4 header since that
\* h2 (empty when there is none).
C29_TitlesFollowHeaders ==
    \A j \in 1..Len(walk.chunk_records) :
        LET i == Nth(EmitPositions(pos), j)
            r == walk.chunk_records[j]
        IN  /\ r.chapter_title = ChapterTitleAt(i)
            /\ r.section_title = SectionTitleAt(i)

RecognisedBlockTypes ==
    SkippedBlockTypes \cup {"SectionHeader", "Text", "ListGroup", "Equation", "Figure", "Table"}

\* a skipped type, an unrecognised type, or a text block without text
EmitsNothing(b) ==
    \/ b.block_type \in SkippedBlockTypes
    \/ b.block_type \notin RecognisedBlockTypes
    \/ /\ b.block_type \in {"Text", "ListGroup", "Equation"}
       /\ strip_html(b.html) = <<>>

\* C30: a Page, PageHeader, PageFooter, TableOfContents, Caption or Picture
\* block, a block of an unrecognised type and a Text, ListGroup or Equation
\* block whose stripped text is empty emit no chunk and no figure record and
\* leave chapter_idx, section_idx, chunk_idx, both titles and the figure
\* number as they are; a Figure or Table block adds its figure record and
\* changes the figure number only.
C30_SilentBlocksChangeNothing ==
    [][ (phase = "walk" /\ pos < Len(flat_blocks))
            => /\ EmitsNothing(flat_blocks[pos + 1]) => walk' = walk
               /\ IsFigureBlock(flat_blocks[pos + 1]) =>
                      /\ walk'.figure_seq = walk.figure_seq + 1
                      /\ Len(walk'.figure_records) = Len(walk.figure_records) + 1
                      /\ walk' = [walk EXCEPT !.figure_seq = walk'.figure_seq,
                                              !.figure_records = walk'.figure_records]
      ]_vars

C30_Witness ==
    /\ phase = "walk"
    /\ pos >= 1
    /\ EmitsNothing(flat_blocks[pos])
    /\ walk.chapter_idx = 1
    /\ walk.chunk_idx = 1
    /\ walk.figure_seq = 1
    /\ walk.current_chapter_title # <<>>

-----------------------------------------------------------------------------
(* The section-key guard of the text arm *)

\* the text arm without `if section_key != last_section_key`
on_text_without_guard(w, params, block) ==
    LET text == strip_html(block.html)
    IN  IF trim_is_empty(text) THEN w
        ELSE [w EXCEPT
                !.chunk_records = Append(@,
                    [ chunk_id |-> format_chunk_id(params.paper_id, w.chapter_idx,
                                                   w.section_idx, w.chunk_idx),
                      chapter_title |-> w.current_chapter_title,
                      chapter_idx |-> w.chapter_idx,
                      section_title |-> w.current_section_title,
                      section_idx |-> w.section_idx,
                      chunk_idx |-> w.chunk_idx,
                      text |-> text,
                      page |-> block.page,
                      figure_ids |-> <<>> ]),
                !.chunk_idx = AddU16(w.chunk_idx, 1)]

process_block_without_guard(w, params, hm, block) ==
    IF block.block_type \in {"Text", "ListGroup", "Equation"}
    THEN on_text_without_guard(w, params, block)
    ELSE process_block(w, params, hm, block)

\* the walk of the first n blocks by an ingestor without the guard
RECURSIVE walk_without_guard(_, _, _, _)
walk_without_guard(w, hm, i, n) ==
    IF i > n THEN w
    ELSE walk_without_guard(process_block_without_guard(w, WalkParams, hm, flat_blocks[i]),
                            hm, i + 1, n)

\* C31: whenever a text chunk is about to be emitted, last_section_key
\* already equals (chapter_idx, section_idx), so the section-key guard never
\* resets chunk_idx, and an ingestor without the guard has emitted the same
\* chunk records after every prefix of every block stream.
C31_GuardNeverFires ==
    phase = "walk" =>
        /\ walk.last_section_key = <<walk.chapter_idx, walk.section_idx>>
        /\ walk.chunk_records =
              walk_without_guard(InitWalkLocals, heading_map, 1, pos).chunk_records

C31_Witness ==
    /\ phase = "walk"
    /\ pos >= 1
    /\ EmitsChunk(flat_blocks[pos])
    /\ walk.chapter_idx = 1
    /\ walk.section_idx = 1
    /\ Len(walk.chunk_records) = 2
    /\ walk.chunk_records[2].chunk_idx = 0

-----------------------------------------------------------------------------
(* Claims about ingests run one at a time (SpecSeq) *)

NoCallRunning == \A p \in Procs : calls[p].pc \in {"idle", "returned"}

ReturnedOk(p) == calls[p].pc = "returned" /\ calls[p].result = "Ok"

ReturnedErr(p) == calls[p].pc = "returned" /\ calls[p].result \notin {"Ok", "none"}

ChunkKey(row) == <<row.paper_id, row.chapter_idx, row.section_idx, row.chunk_idx>>

CallChunkRows(p) == build_chunks_batch(calls[p].params, calls[p].chunk_records)
CallFigureRows(p) == build_figures_batch(calls[p].params, calls[p].figure_records)

\* C4: between calls no two rows of the chunks table share
\* (paper_id, chapter_idx, section_idx, chunk_idx), nor a chunk_id.
C4_UniqueChunkKeys ==
    NoCallRunning =>
        \A i, j \in 1..Len(chunks_tbl) :
            i # j => /\ ChunkKey(chunks_tbl[i]) # ChunkKey(chunks_tbl[j])
                     /\ chunks_tbl[i].chunk_id # chunks_tbl[j].chunk_id

\* C5: when a call returns Ok the chunks table holds for its paper_id exactly
\* the chunks that call extracted, and list_papers counts chunks_added chunks
\* for the paper (no row when the call extracted none).
C5_LastIngestWins ==
    ReturnedOk(1) =>
        LET pid == calls[1].params.paper_id
        IN  /\ rows_of(chunks_tbl, pid) = CallChunkRows(1)
            /\ IF chunks_added(1) = 0 THEN pid \notin DOMAIN paper_map
               ELSE /\ pid \in DOMAIN paper_map
                    /\ paper_map[pid].chunk_count = chunks_added(1)

\* C7: when a call returns an error its paper is un-indexed (no row in either
\* table) or holds exactly the rows it held before the call.
C7_NoPartialState ==
    ReturnedErr(1) =>
        LET pid == calls[1].params.paper_id
            now == [chunks |-> rows_of(chunks_tbl, pid),
                    figures |-> rows_of(figures_tbl, pid)]
        IN  \/ now = [chunks |-> <<>>, figures |-> <<>>]
            \/ now = hist.before[1]

\* C10: a call in which a store operation failed (the delete or the insert,
\* on either table) surfaces the failure: it returns an error, not Ok.
C10_StoreFailureSurfaced ==
    (calls[1].pc = "returned" /\ hist.store_failed[1]) => ReturnedErr(1)

QuotedIds == {params.paper_id : params \in QuotedParams}

\* C32: no step of ingest_paper for paper_id P, in a call that succeeds or
\* in one that fails at any step, changes the chunk rows or the figure rows
\* of another paper_id, also when the ids contain single quotes.
C32_OtherPapersUntouched ==
    [][ \A pid \in QuotedIds :
            pid # calls'[1].params.paper_id =>
                /\ rows_of(chunks_tbl', pid) = rows_of(chunks_tbl, pid)
                /\ rows_of(figures_tbl', pid) = rows_of(figures_tbl, pid) ]_vars

\* a re-ingest of P' has returned while P and 'P' hold rows
C32_Witness ==
    /\ calls[1].pc = "returned"
    /\ calls[1].params.paper_id = <<"P", "'">>
    /\ hist.before[1].chunks # <<>>
    /\ rows_of(chunks_tbl, <<"P">>) # <<>>
    /\ rows_of(figures_tbl, <<"P">>) # <<>>

-----------------------------------------------------------------------------
(* Claims about two concurrent ingests of one paper_id (SpecConc) *)

BothReturnedOk == \A p \in Procs : ReturnedOk(p)

NoStoreFailure == \A p \in Procs : ~hist.store_failed[p]

Other(p) == CHOOSE q \in Procs : q # p

IsSuffix(suffix, seq) ==
    /\ Len(suffix) <= Len(seq)
    /\ SubSeq(seq, Len(seq) - Len(suffix) + 1, Len(seq)) = suffix

-----------------------------------------------------------------------------
(* filter.rs: FilterBuilder and validate_scope. Predicate strings are       *)
(* sequences of characters, as the store's SQL reader sees them             *)

MaxFbCalls == 2

\* [String]::join(sep)
RECURSIVE join(_, _)
join(strs, sep) ==
    IF strs = <<>> THEN <<>>
    ELSE IF Len(strs) = 1 THEN strs[1]
    ELSE strs[1] \o sep \o join(Tail(strs), sep)

\* format!("'{}'", id.replace('\'', "''"))
quoted(val) == <<"'">> \o sql_escape(val) \o <<"'">>

fb_paper_ids(clauses, ids) ==
    IF ids = <<>> THEN clauses
    ELSE LET list == join([i \in 1..Len(ids) |-> quoted(ids[i])], Chars(", "))
         IN  Append(clauses, Chars("paper_id IN (") \o list \o Chars(")"))

fb_chapter_idx(clauses, idx) == Append(clauses, Chars("chapter_idx = ") \o Decimal(idx))

fb_section_idx(clauses, idx) == Append(clauses, Chars("section_idx = ") \o Decimal(idx))

\* eq_str that copies the value into the literal as it is
fb_eq_str_unescaped(clauses, col, val) ==
    Append(clauses, Chars(col) \o Chars(" = '") \o val \o Chars("'"))

fb_eq_str(clauses, col, val) ==
    LET escaped == sql_escape(val)
    IN  Append(clauses, Chars(col) \o Chars(" = '") \o escaped \o Chars("'"))

fb_eq_u16(clauses, col, val) == Append(clauses, Chars(col) \o Chars(" = ") \o Decimal(val))

fb_year_range(clauses, min, max) ==
    LET with_min == IF min # None THEN Append(clauses, Chars("year >= ") \o Decimal(min[1]))
                    ELSE clauses
    IN  IF max # None THEN Append(with_min, Chars("year <= ") \o Decimal(max[1]))
        ELSE with_min

fb_tags_any(clauses, tags) ==
    IF tags = <<>> THEN clauses
    ELSE LET conditions == [i \in 1..Len(tags) |->
                               Chars("array_has(tags, '") \o sql_escape(tags[i]) \o Chars("')")]
         IN  IF Len(conditions) = 1 THEN Append(clauses, conditions[1])
             ELSE Append(clauses, Chars("(") \o join(conditions, Chars(" OR ")) \o Chars(")"))

fb_build(clauses) == IF clauses = <<>> THEN None ELSE Some(join(clauses, Chars(" AND ")))

\* Ok(()) and Err(RagError::Scope(msg))
OkUnit == [ok |-> TRUE]

ScopeErr(msg) == [ok |-> FALSE, err |-> "Scope", msg |-> msg]

\* validate_scope without its first check
validate_scope_chapter_only(chapter_idx, section_idx, paper_id) ==
    IF chapter_idx # None /\ paper_id = None
    THEN ScopeErr("chapter_idx requires paper_id")
    ELSE OkUnit

validate_scope(chapter_idx, section_idx, paper_id) ==
    IF section_idx # None /\ chapter_idx = None
    THEN ScopeErr("section_idx requires chapter_idx")
    ELSE IF chapter_idx # None /\ paper_id = None
    THEN ScopeErr("chapter_idx requires paper_id")
    ELSE OkUnit

-----------------------------------------------------------------------------
(* Specification of the filter module: a caller builds one predicate with   *)
(* up to MaxFbCalls builder calls, or validates one scope                   *)

FilterValues ==
    {Chars("a"), Chars("'"), Chars("a'b"), Chars("''"), Chars("' AND x = '"), <<>>}

FilterLists ==
    {<<>>, <<Chars("a")>>, <<Chars("a'b")>>, <<Chars("a"), Chars("'")>>,
     <<Chars("' AND x = '"), Chars("a")>>}

FilterU16 == {0, 7, 65535}

OptU16 == {None} \cup {Some(n) : n \in FilterU16}

ScopeIds == {None, Some(<<>>), Some(Chars("P")), Some(Chars("a'b"))}

NewFilterBuilder == [op |-> "filter", clauses |-> <<>>, added |-> <<>>, built |-> None]

Building == query.op = "filter" /\ query.built = None /\ Len(query.added) < MaxFbCalls

Added(clauses, input) ==
    query' = [query EXCEPT !.clauses = clauses, !.added = Append(@, input)]

FbNew ==
    /\ query.op = "idle"
    /\ query' = NewFilterBuilder
    /\ UNCHANGED <<walk_vars, store_vars, sel_vars>>

FbPaperIds ==
    /\ Building
    /\ \E ids \in FilterLists :
          Added(fb_paper_ids(query.clauses, ids), [kind |-> "paper_ids", values |-> ids])
    /\ UNCHANGED <<walk_vars, store_vars, sel_vars>>

FbChapterIdx ==
    /\ Building
    /\ \E idx \in FilterU16 :
          Added(fb_chapter_idx(query.clauses, idx), [kind |-> "chapter_idx", n |-> idx])
    /\ UNCHANGED <<walk_vars, store_vars, sel_vars>>

FbSectionIdx ==
    /\ Building
    /\ \E idx \in FilterU16 :
          Added(fb_section_idx(query.clauses, idx), [kind |-> "section_idx", n |-> idx])
    /\ UNCHANGED <<walk_vars, store_vars, sel_vars>>

FbEqStr ==
    /\ Building
    /\ \E col \in {"venue", "depth"}, val \in FilterValues :
          Added(fb_eq_str(query.clauses, col, val),
                [kind |-> "eq_str", col |-> col, values |-> <<val>>])
    /\ UNCHANGED <<walk_vars, store_vars, sel_vars>>

FbEqU16 ==
    /\ Building
    /\ \E val \in FilterU16 :
          Added(fb_eq_u16(query.clauses, "year", val),
                [kind |-> "eq_u16", col |-> "year", n |-> val])
    /\ UNCHANGED <<walk_vars, store_vars, sel_vars>>

FbYearRange ==
    /\ Building
    /\ \E min \in OptU16, max \in OptU16 :
          Added(fb_year_range(query.clauses, min, max),
                [kind |-> "year_range", min |-> min, max |-> max])
    /\ UNCHANGED <<walk_vars, store_vars, sel_vars>>

FbTagsAny ==
    /\ Building
    /\ \E tags \in FilterLists :
          Added(fb_tags_any(query.clauses, tags), [kind |-> "tags_any", values |-> tags])
    /\ UNCHANGED <<walk_vars, store_vars, sel_vars>>

FbBuild ==
    /\ query.op = "filter"
    /\ query.built = None
    /\ query' = [query EXCEPT !.built = Some(fb_build(query.clauses))]
    /\ UNCHANGED <<walk_vars, store_vars, sel_vars>>

ValidateScope ==
    /\ query.op = "idle"
    /\ \E ch \in OptU16, sec \in OptU16, pid \in ScopeIds :
          query' = [ op |-> "validate_scope",
                     chapter_idx |-> ch,
                     section_idx |-> sec,
                     paper_id |-> pid,
                     reply |-> validate_scope(ch, sec, pid) ]
    /\ UNCHANGED <<walk_vars, store_vars, sel_vars>>

NextFilter ==
    \/ FbNew
    \/ FbPaperIds
    \/ FbChapterIdx
    \/ FbSectionIdx
    \/ FbEqStr
    \/ FbEqU16
    \/ FbYearRange
    \/ FbTagsAny
    \/ FbBuild
    \/ ValidateScope

SpecFilter == InitSeq /\ [][NextFilter]_vars

-----------------------------------------------------------------------------
(* What the store reads in a predicate string: quoted literals, in which a  *)
(* doubled quote stands for one quote, and clauses separated by " AND "     *)
(* outside of literals                                                      *)

NoClause == [text |-> <<>>, lits |-> <<>>]

\* the reader's state after the character at i: inside a literal '' is one
\* quote of the value and a single ' ends it; outside, " AND " ends a clause
sql_step(str, i, st) ==
    IF st.skip > 0 THEN [st EXCEPT !.skip = @ - 1]
    ELSE IF st.in_lit
    THEN IF str[i] = "'"
         THEN IF i < Len(str) /\ str[i + 1] = "'"
              THEN [st EXCEPT !.val = Append(@, "'"), !.skip = 1]
              ELSE [st EXCEPT !.in_lit = FALSE,
                              !.cur = [text |-> Append(@.text, "?"),
                                       lits |-> Append(@.lits, st.val)]]
         ELSE [st EXCEPT !.val = Append(@, str[i])]
    ELSE IF str[i] = "'"
    THEN [st EXCEPT !.in_lit = TRUE, !.val = <<>>]
    ELSE IF i + 4 <= Len(str) /\ SubSeq(str, i, i + 4) = Chars(" AND ")
    THEN [st EXCEPT !.clauses = Append(@, st.cur), !.cur = NoClause, !.skip = 4]
    ELSE [st EXCEPT !.cur.text = Append(@, str[i])]

\* the state after the characters lo..hi, read left to right; the left half
\* is evaluated (skip is never negative) before the right half starts
RECURSIVE sql_lex(_, _, _, _)
sql_lex(str, lo, hi, st) ==
    IF lo > hi THEN st
    ELSE IF lo = hi THEN sql_step(str, lo, st)
    ELSE LET mid == (lo + hi) \div 2
             left == sql_lex(str, lo, mid, st)
         IN  IF left.skip >= 0 THEN sql_lex(str, mid + 1, hi, left) ELSE left

sql_clauses(str) ==
    LET st == sql_lex(str, 1, Len(str),
                      [ clauses |-> <<>>, cur |-> NoClause, in_lit |-> FALSE,
                        val |-> <<>>, skip |-> 0 ])
    IN  [ clauses |-> Append(st.clauses, st.cur), unterminated |-> st.in_lit ]

Holes(n, sep) == join([i \in 1..n |-> <<"?">>], Chars(sep))

\* the clauses one builder call is to contribute, literals replaced by ?
ExpectedOf(input) ==
    CASE input.kind = "paper_ids" ->
           IF input.values = <<>> THEN <<>>
           ELSE << [ text |-> Chars("paper_id IN (") \o Holes(Len(input.values), ", ")
                              \o Chars(")"),
                     lits |-> input.values ] >>
      [] input.kind \in {"chapter_idx", "section_idx"} ->
           << [ text |-> Chars(input.kind) \o Chars(" = ") \o Decimal(input.n),
                lits |-> <<>> ] >>
      [] input.kind = "eq_str" ->
           << [ text |-> Chars(input.col) \o Chars(" = ?"), lits |-> input.values ] >>
      [] input.kind = "eq_u16" ->
           << [ text |-> Chars(input.col) \o Chars(" = ") \o Decimal(input.n),
                lits |-> <<>> ] >>
      [] input.kind = "year_range" ->
           (IF input.min = None THEN <<>>
            ELSE << [text |-> Chars("year >= ") \o Decimal(input.min[1]), lits |-> <<>>] >>)
           \o
           (IF input.max = None THEN <<>>
            ELSE << [text |-> Chars("year <= ") \o Decimal(input.max[1]), lits |-> <<>>] >>)
      [] input.kind = "tags_any" ->
           IF input.values = <<>> THEN <<>>
           ELSE IF Len(input.values) = 1
           THEN << [ text |-> Chars("array_has(tags, ?)"), lits |-> input.values ] >>
           ELSE << [ text |-> Chars("(")
                              \o join([i \in 1..Len(input.values) |->
                                          Chars("array_has(tags, ?)")], Chars(" OR "))
                              \o Chars(")"),
                     lits |-> input.values ] >>

RECURSIVE ExpectedClauses(_)
ExpectedClauses(added) ==
    IF added = <<>> THEN <<>> ELSE ExpectedOf(Head(added)) \o ExpectedClauses(Tail(added))

QuoteCount(str) == Cardinality({i \in 1..Len(str) : str[i] = "'"})

RECURSIVE QuotesOwed(_)
QuotesOwed(clauses) ==
    IF clauses = <<>> THEN 0
    ELSE LET lits == Head(clauses).lits
             RECURSIVE Sum(_)
             Sum(i) == IF i > Len(lits) THEN 0 ELSE 2 + 2 * QuoteCount(lits[i]) + Sum(i + 1)
         IN  Sum(1) + QuotesOwed(Tail(clauses))

ScopePresence ==
    <<query.chapter_idx # None, query.section_idx # None, query.paper_id # None>>

AcceptedPresence ==
    {<<FALSE, FALSE, FALSE>>, <<FALSE, FALSE, TRUE>>, <<TRUE, FALSE, TRUE>>, <<TRUE, TRUE, TRUE>>}

\* C11: validate_scope accepts the presence combinations (None, None, None),
\* (None, None, Some), (Some, None, Some) and (Some, Some, Some) of
\* (chapter_idx, section_idx, paper_id) and rejects the three others with a
\* scope error; section_idx without chapter_idx is reported as
\* "section_idx requires chapter_idx" whether or not paper_id is given.
C11_ValidateScope ==
    query.op = "validate_scope" =>
        /\ ScopePresence \in AcceptedPresence => query.reply = OkUnit
        /\ ScopePresence \notin AcceptedPresence =>
              /\ ~query.reply.ok
              /\ query.reply.err = "Scope"
        /\ (query.section_idx # None /\ query.chapter_idx = None) =>
              query.reply = ScopeErr("section_idx requires chapter_idx")

C11_Witness ==
    /\ query.op = "validate_scope"
    /\ ScopePresence = <<FALSE, TRUE, FALSE>>
    /\ query.reply = ScopeErr("section_idx requires chapter_idx")

\* C13: build() is None when the builder calls accumulated no clause;
\* otherwise the store reads the built string as exactly the accumulated
\* clauses, in the order they were added and separated by " AND ", every
\* literal is terminated and reads back as the input value it was made from,
\* and the string holds two quotes per literal plus two per quote of a value.
C13_FilterBuilderEscapes ==
    (query.op = "filter" /\ query.built # None) =>
        LET built == query.built[1]
            expected == ExpectedClauses(query.added)
        IN  IF expected = <<>> THEN built = None
            ELSE /\ built # None
                 /\ sql_clauses(built[1]) = [clauses |-> expected, unterminated |-> FALSE]
                 /\ QuoteCount(built[1]) = QuotesOwed(expected)

C13_Witness ==
    /\ query.op = "filter"
    /\ query.built # None
    /\ query.built[1] # None
    /\ Len(query.clauses) >= 2
    /\ \E i \in 1..Len(query.added) :
          /\ query.added[i].kind \in {"paper_ids", "eq_str", "tags_any"}
          /\ \E j \in 1..Len(query.added[i].values) :
                QuoteCount(query.added[i].values[j]) > 0

-----------------------------------------------------------------------------
(* query.rs: the read operations over the two tables                        *)

MaxQueryIngests == 2

Reverse(seq) == [i \in 1..Len(seq) |-> seq[Len(seq) + 1 - i]]

\* the orders in which a scan may yield its rows: the store promises none;
\* insertion order and its reverse are followed
YieldOrders(rows) == {rows, Reverse(rows)}

\* query().limit(1): the rows a scan cut after its first row may return
LimitOne(rows) == IF rows = <<>> THEN {<<>>} ELSE {<<rows[i]>> : i \in 1..Len(rows)}

\* Vec::sort_by_key: a stable sort of seq by the integer key(x)
RECURSIVE insert_sorted(_, _)
insert_sorted(sorted, x) ==
    IF sorted = <<>> THEN <<x>>
    ELSE IF sorted[Len(sorted)][1] <= x[1] THEN Append(sorted, x)
    ELSE Append(insert_sorted(SubSeq(sorted, 1, Len(sorted) - 1), x), sorted[Len(sorted)])

RECURSIVE sort_pairs(_)
sort_pairs(pairs) ==
    IF pairs = <<>> THEN <<>>
    ELSE insert_sorted(sort_pairs(SubSeq(pairs, 1, Len(pairs) - 1)), pairs[Len(pairs)])

sort_by_key(seq, key(_)) ==
    LET sorted == sort_pairs([i \in 1..Len(seq) |-> <<key(seq[i]), seq[i]>>])
    IN  [i \in 1..Len(seq) |-> sorted[i][2]]

\* a filter that lets every row pass
str_eq_any(row, column, val) == TRUE

\* only_if("<column> = '<escaped>'") as the store evaluates it
str_eq(row, column, val) == filter_matches(row, [column |-> column, literal |-> sql_escape(val)])

in_section(row, paper_id, chapter_idx, section_idx) ==
    /\ str_eq(row, "paper_id", paper_id)
    /\ row.chapter_idx = chapter_idx
    /\ row.section_idx = section_idx

NotFound(msg) == [ok |-> FALSE, err |-> "NotFound", msg |-> msg]

StoreErr == [ok |-> FALSE, err |-> "LanceDb"]

EmbedErr == [ok |-> FALSE, err |-> "Embed"]

OkOf(val) == [ok |-> TRUE, val |-> val]

\* position_context whose is_last_in_section is never set
position_context_never_last(tbl, paper_id, chapter_idx, section_idx, chunk_idx) ==
    [ total_chunks_in_section |->
          Len(SelectSeq(tbl, LAMBDA r : in_section(r, paper_id, chapter_idx, section_idx))),
      total_sections_in_chapter |->
          Cardinality({tbl[i].section_idx : i \in {j \in 1..Len(tbl) :
              str_eq(tbl[j], "paper_id", paper_id) /\ tbl[j].chapter_idx = chapter_idx}}),
      total_chapters_in_paper |->
          Cardinality({tbl[i].chapter_idx : i \in {j \in 1..Len(tbl) :
              str_eq(tbl[j], "paper_id", paper_id)}}),
      is_first_in_section |-> chunk_idx = 0,
      is_last_in_section |-> FALSE ]

position_context(tbl, paper_id, chapter_idx, section_idx, chunk_idx) ==
    LET total_in_section ==
            Len(SelectSeq(tbl, LAMBDA r : in_section(r, paper_id, chapter_idx, section_idx)))
        section_set ==
            {tbl[i].section_idx : i \in {j \in 1..Len(tbl) :
                str_eq(tbl[j], "paper_id", paper_id) /\ tbl[j].chapter_idx = chapter_idx}}
        chapter_set ==
            {tbl[i].chapter_idx : i \in {j \in 1..Len(tbl) :
                str_eq(tbl[j], "paper_id", paper_id)}}
    IN  [ total_chunks_in_section |-> total_in_section,
          total_sections_in_chapter |-> Cardinality(section_set),
          total_chapters_in_paper |-> Cardinality(chapter_set),
          is_first_in_section |-> chunk_idx = 0,
          is_last_in_section |-> AddU16(chunk_idx, 1) >= total_in_section % U16Mod ]

\* the figure rows whose figure_id is in the chunk's list
resolve_figures(ftbl, figure_ids) ==
    IF figure_ids = <<>> THEN <<>>
    ELSE LET hits == SelectSeq(ftbl, LAMBDA f :
                        \E i \in 1..Len(figure_ids) : str_eq(f, "figure_id", figure_ids[i]))
         IN  [i \in 1..Len(hits) |->
                [ figure_id |-> hits[i].figure_id,
                  figure_type |-> hits[i].figure_type,
                  caption |-> hits[i].caption ]]

build_chunk_with_position(data) ==
    [ chunk_id |-> data.chunk_id,
      paper_id |-> data.paper_id,
      text |-> data.text,
      chapter_title |-> data.chapter_title,
      chapter_idx |-> data.chapter_idx,
      section_title |-> data.section_title,
      section_idx |-> data.section_idx,
      chunk_idx |-> data.chunk_idx,
      figure_ids |-> data.figure_ids,
      referenced_figures |-> resolve_figures(figures_tbl, data.figure_ids),
      position |-> position_context(chunks_tbl, data.paper_id, data.chapter_idx,
                                    data.section_idx, data.chunk_idx) ]

ChunkSummary(row) == [chunk_id |-> row.chunk_id, text_preview |-> row.text]

\* one lookup of fetch_neighbors: None, or the summary of a row at chunk_idx
neighbor_at(tbl, data, chunk_idx) ==
    LET hits == SelectSeq(tbl, LAMBDA r :
                    /\ in_section(r, data.paper_id, data.chapter_idx, data.section_idx)
                    /\ r.chunk_idx = chunk_idx)
    IN  IF hits = <<>> THEN {None} ELSE {Some(ChunkSummary(hits[i])) : i \in 1..Len(hits)}

\* the (prev, next) pairs fetch_neighbors may return
fetch_neighbors(tbl, data) ==
    LET prevs == IF data.chunk_idx > 0 THEN neighbor_at(tbl, data, data.chunk_idx - 1)
                 ELSE {None}
        nexts == neighbor_at(tbl, data, AddU16(data.chunk_idx, 1))
    IN  {[prev |-> pn[1], next |-> pn[2]] : pn \in prevs \X nexts}

\* get_chunk that takes the rows of the table without looking at their id
get_chunk_any_row(chunk_id) ==
    IF chunks_tbl = <<>> THEN {NotFound(Chars("chunk not found: ") \o chunk_id)}
    ELSE { OkOf([chunk |-> build_chunk_with_position(batch[1]), prev |-> None, next |-> None]) :
           batch \in LimitOne(chunks_tbl) }

\* the possible results of get_chunk(chunk_id) on the current tables
get_chunk(chunk_id) ==
    LET hits == SelectSeq(chunks_tbl, LAMBDA r : str_eq(r, "chunk_id", chunk_id))
    IN  IF hits = <<>> THEN {NotFound(Chars("chunk not found: ") \o chunk_id)}
        ELSE UNION { { OkOf([ chunk |-> build_chunk_with_position(batch[1]),
                              prev |-> n.prev,
                              next |-> n.next ]) :
                         n \in fetch_neighbors(chunks_tbl, batch[1]) } :
                     batch \in LimitOne(hits) }

\* the titles get_section and get_chapter report: those of the first row whose
\* chapter_title is not empty, else those of the last row
first_titled(rows) ==
    IF rows = <<>> THEN 0
    ELSE LET titled == {i \in 1..Len(rows) : rows[i].chapter_title # <<>>}
         IN  IF titled = {} THEN Len(rows) ELSE CHOOSE i \in titled : \A j \in titled : i <= j

get_section(paper_id, chapter_idx, section_idx) ==
    LET hits == SelectSeq(chunks_tbl,
                    LAMBDA r : in_section(r, paper_id, chapter_idx, section_idx))
        key(r) == r.chunk_idx
    IN  { LET rows == sort_by_key(yielded, key)
              k == first_titled(rows)
          IN  OkOf([ paper_id |-> paper_id,
                     chapter_title |-> IF k = 0 THEN <<>> ELSE rows[k].chapter_title,
                     section_title |-> IF k = 0 THEN <<>> ELSE rows[k].section_title,
                     chunks |-> [i \in 1..Len(rows) |-> build_chunk_with_position(rows[i])],
                     total_chunks |-> Len(rows) ]) :
          yielded \in YieldOrders(hits) }

\* the grouping loop of get_chapter over the sorted rows
RECURSIVE group_sections(_, _, _)
group_sections(rows, i, sections) ==
    IF i > Len(rows) THEN sections
    ELSE LET chunk == build_chunk_with_position(rows[i])
             n == Len(sections)
         IN  IF n > 0 /\ sections[n].section_idx = rows[i].section_idx
             THEN group_sections(rows, i + 1,
                      [sections EXCEPT ![n].chunks = Append(@, chunk)])
             ELSE group_sections(rows, i + 1,
                      Append(sections, [ section_idx |-> rows[i].section_idx,
                                         section_title |-> rows[i].section_title,
                                         chunks |-> <<chunk>> ]))

RECURSIVE total_len(_)
total_len(sections) ==
    IF sections = <<>> THEN 0 ELSE Len(Head(sections).chunks) + total_len(Tail(sections))

get_chapter(paper_id, chapter_idx) ==
    LET hits == SelectSeq(chunks_tbl, LAMBDA r :
                    str_eq(r, "paper_id", paper_id) /\ r.chapter_idx = chapter_idx)
        key(r) == r.section_idx * U16Mod + r.chunk_idx
    IN  { LET rows == sort_by_key(yielded, key)
              k == first_titled(rows)
              sections == group_sections(rows, 1, <<>>)
          IN  OkOf([ paper_id |-> paper_id,
                     chapter_title |-> IF k = 0 THEN <<>> ELSE rows[k].chapter_title,
                     chapter_idx |-> chapter_idx,
                     sections |-> sections,
                     total_chunks |-> total_len(sections) ]) :
          yielded \in YieldOrders(hits) }

get_figure(figure_id) ==
    LET hits == SelectSeq(figures_tbl, LAMBDA r : str_eq(r, "figure_id", figure_id))
    IN  IF hits = <<>> THEN {NotFound(Chars("figure not found: ") \o figure_id)}
        ELSE { OkOf([ figure_id |-> batch[1].figure_id,
                      paper_id |-> batch[1].paper_id,
                      figure_type |-> batch[1].figure_type,
                      caption |-> batch[1].caption,
                      image_path |-> batch[1].image_path,
                      page |-> batch[1].page ]) :
               batch \in LimitOne(hits) }

\* a finite set of numbers as the ascending sequence Vec::sort gives
RECURSIVE sorted_seq(_)
sorted_seq(S) ==
    IF S = {} THEN <<>>
    ELSE LET m == CHOOSE x \in S : \A y \in S : x <= y
         IN  <<m>> \o sorted_seq(S \ {m})

get_paper_outline(paper_id) ==
    LET rows == SelectSeq(chunks_tbl, LAMBDA r : str_eq(r, "paper_id", paper_id))
        figs == SelectSeq(figures_tbl, LAMBDA r : str_eq(r, "paper_id", paper_id))
        count(seq, test(_)) == Len(SelectSeq(seq, test))
        first_of(yielded, test(_)) ==
            yielded[CHOOSE i \in 1..Len(yielded) :
                        test(yielded[i]) /\ \A j \in 1..(i - 1) : ~test(yielded[j])]
        section(yielded, ch, sec) ==
            LET here(r) == r.chapter_idx = ch /\ r.section_idx = sec
            IN  [ section_idx |-> sec,
                  section_title |-> first_of(yielded, here).section_title,
                  chunk_count |-> count(rows, here) ]
        chapter(yielded, ch) ==
            LET here(r) == r.chapter_idx = ch
                sec_idxs == sorted_seq({rows[i].section_idx :
                                i \in {j \in 1..Len(rows) : here(rows[j])}})
            IN  [ chapter_idx |-> ch,
                  chapter_title |-> first_of(yielded, here).chapter_title,
                  sections |-> [i \in 1..Len(sec_idxs) |-> section(yielded, ch, sec_idxs[i])],
                  figure_count |-> count(figs, here) ]
    IN  IF rows = <<>> THEN {NotFound(Chars("paper not found: ") \o paper_id)}
        ELSE { LET chapter_idxs == sorted_seq({rows[i].chapter_idx : i \in 1..Len(rows)})
               IN  OkOf([ paper_id |-> paper_id,
                          title |-> yielded[1].title,
                          year |-> yielded[1].year,
                          chapters |-> [i \in 1..Len(chapter_idxs) |->
                                           chapter(yielded, chapter_idxs[i])],
                          total_chunks |-> Len(rows),
                          total_figures |-> Len(figs) ]) :
               yielded \in YieldOrders(rows) }

\* the predicate FilterBuilder compiles for list_papers and search, as the
\* store evaluates it on a row (a comparison with a null year is not true)
passes_ids(row, paper_ids) ==
    \/ paper_ids = None
    \/ paper_ids[1] = <<>>
    \/ \E i \in 1..Len(paper_ids[1]) : str_eq(row, "paper_id", paper_ids[1][i])

passes_years(row, min, max) ==
    /\ min # None => (row.year # None /\ row.year[1] >= min[1])
    /\ max # None => (row.year # None /\ row.year[1] <= max[1])

TitleOrder == <<"Title K1", "Title K2">>

title_rank(title) == CHOOSE i \in 1..Len(TitleOrder) : TitleOrder[i] = title

\* the possible results of list_papers(params) on the current tables
list_papers(params) ==
    LET rows == SelectSeq(chunks_tbl, LAMBDA r :
                    /\ passes_ids(r, params.paper_ids)
                    /\ passes_years(r, params.filter_year_min, params.filter_year_max))
        pids == {rows[i].paper_id : i \in 1..Len(rows)}
        summary(yielded, pid) ==
            LET first == yielded[CHOOSE i \in 1..Len(yielded) :
                            /\ yielded[i].paper_id = pid
                            /\ \A j \in 1..(i - 1) : yielded[j].paper_id # pid]
            IN  [ paper_id |-> pid,
                  title |-> first.title,
                  year |-> first.year,
                  chunk_count |-> Len(rows_of(rows, pid)),
                  figure_count |-> Len(rows_of(figures_tbl, pid)) ]
        key(paper) ==
            IF unwrap_or(params.sort_by, "year") = "title" THEN title_rank(paper.title)
            ELSE IF paper.year = None THEN 1 ELSE 0 - paper.year[1]
    IN  UNION { { LET papers == sort_by_key([i \in 1..Len(ord) |-> summary(yielded, ord[i])],
                                            key)
                  IN  OkOf(SubSeq(papers, 1, IF Len(papers) < params.limit
                                             THEN Len(papers) ELSE params.limit)) :
                  ord \in {o \in [1..Cardinality(pids) -> pids] :
                              \A i, j \in 1..Cardinality(pids) : i # j => o[i] # o[j]} } :
                yielded \in YieldOrders(rows) }

\* the results of the row loop of search over the rows the query returned
RECURSIVE search_results(_)
search_results(rows) ==
    IF rows = <<>> THEN {<<>>}
    ELSE { << [ chunk |-> build_chunk_with_position(Head(rows)),
                prev |-> n.prev,
                next |-> n.next ] >> \o rest :
           n \in fetch_neighbors(chunks_tbl, Head(rows)), rest \in search_results(Tail(rows)) }

\* search_scope that takes a present paper_ids list for a paper id
search_scope_any_list(params) ==
    validate_scope(params.chapter_idx, params.section_idx,
                   IF params.paper_ids = None THEN None ELSE Some(params.paper_ids[1]))

\* validate_scope as search calls it: paper_id is the first of paper_ids
search_scope(params) ==
    validate_scope(params.chapter_idx, params.section_idx,
                   IF params.paper_ids = None \/ params.paper_ids[1] = <<>> THEN None
                   ELSE Some(params.paper_ids[1][1]))

\* the nearest-neighbor query of search: up to limit of the rows that pass the
\* predicate, in the order of their distance to the query
search_query(params) ==
    LET rows == SelectSeq(chunks_tbl, LAMBDA r :
                    /\ passes_ids(r, params.paper_ids)
                    /\ params.chapter_idx # None => r.chapter_idx = params.chapter_idx[1]
                    /\ params.section_idx # None => r.section_idx = params.section_idx[1]
                    /\ passes_years(r, params.filter_year_min, params.filter_year_max))
    IN  UNION { { OkOf(res) :
                  res \in search_results(SubSeq(nearest, 1,
                              IF Len(nearest) < params.limit THEN Len(nearest)
                              ELSE params.limit)) } :
                nearest \in YieldOrders(rows) }

-----------------------------------------------------------------------------
(* Specification of the read operations: up to MaxQueryIngests ingests run  *)
(* one at a time, some with failing store operations, and one read          *)
(* operation is called between two of them or after the last                *)

PaperP == <<"P">>
PaperQ == <<"Q">>

DocTwoTexts == ParsedFile(<< <<BlkText, BlkList>> >>)

QueryFiles == {DocSections, DocTwoTexts, DocFigureOnly}

QueryIngestParams ==
    { Params("K1", PaperP),
      [Params("K1", PaperP) EXCEPT !.year = Some(2021)],
      Params("K2", PaperQ) }

ChunkIdInputs ==
    {chunks_tbl[i].chunk_id : i \in 1..Len(chunks_tbl)}
        \cup {Chars("P/ch0/s0/p1")}

FigureIdInputs ==
    {figures_tbl[i].figure_id : i \in 1..Len(figures_tbl)} \cup {Chars("P/fig1")}

SectionInputs == {<<PaperP, 0, 0>>, <<PaperP, 0, 1>>, <<PaperP, 1, 1>>, <<PaperQ, 0, 0>>}

ChapterInputs == {<<PaperP, 0>>, <<PaperP, 1>>, <<PaperQ, 1>>}

SearchInputs ==
    [ query : {"q"},
      paper_ids : {None, Some(<<>>), Some(<<PaperQ, PaperP>>)},
      chapter_idx : {None, Some(1)},
      section_idx : {None, Some(0)},
      filter_year_min : {None},
      filter_year_max : {None},
      limit : {2} ]

ListInputs ==
    [ paper_ids : {None},
      filter_year_min : {None, Some(2021)},
      filter_year_max : {None},
      sort_by : {None, Some("title")},
      limit : {1, 10} ]


\* reads are called while no ingest is running
QueryReady == query = IdleQuery /\ calls[1].pc \in {"idle", "returned"}

\* an operation that opens its tables, runs its scans and returns: any of
\* the store operations may fail, and the error is returned
Replied(op, args, replies) ==
    \E fails \in BOOLEAN :
        \E reply \in (IF fails THEN {StoreErr} ELSE replies) :
            query' = [op |-> op, args |-> args, pc |-> "returned", reply |-> reply]

StartIngest ==
    /\ query = IdleQuery
    /\ hist.n_calls < MaxQueryIngests
    /\ \E params \in QueryIngestParams, file \in QueryFiles : Start(1, params, file)

GetChunk ==
    /\ QueryReady
    /\ \E id \in ChunkIdInputs : Replied("get_chunk", [chunk_id |-> id], get_chunk(id))
    /\ UNCHANGED <<walk_vars, store_vars, sel_vars>>

GetSection ==
    /\ QueryReady
    /\ \E at \in SectionInputs :
          Replied("get_section",
                  [paper_id |-> at[1], chapter_idx |-> at[2], section_idx |-> at[3]],
                  get_section(at[1], at[2], at[3]))
    /\ UNCHANGED <<walk_vars, store_vars, sel_vars>>

GetChapter ==
    /\ QueryReady
    /\ \E at \in ChapterInputs :
          Replied("get_chapter", [paper_id |-> at[1], chapter_idx |-> at[2]],
                  get_chapter(at[1], at[2]))
    /\ UNCHANGED <<walk_vars, store_vars, sel_vars>>

GetFigure ==
    /\ QueryReady
    /\ \E id \in FigureIdInputs : Replied("get_figure", [figure_id |-> id], get_figure(id))
    /\ UNCHANGED <<walk_vars, store_vars, sel_vars>>

GetPaperOutline ==
    /\ QueryReady
    /\ \E pid \in {PaperP, PaperQ} :
          Replied("get_paper_outline", [paper_id |-> pid], get_paper_outline(pid))
    /\ UNCHANGED <<walk_vars, store_vars, sel_vars>>

ListPapers ==
    /\ QueryReady
    /\ \E params \in ListInputs : Replied("list_papers", params, list_papers(params))
    /\ UNCHANGED <<walk_vars, store_vars, sel_vars>>

\* search, lines 361-368: validate_scope(..)?
SearchCall ==
    /\ QueryReady
    /\ \E params \in SearchInputs :
          LET scope == search_scope(params)
          IN  query' = [ op |-> "search",
                         args |-> params,
                         pc |-> IF scope.ok THEN "embed" ELSE "returned",
                         reply |-> IF scope.ok THEN Pending ELSE scope,
                         embed_calls |-> 0,
                         table_opens |-> 0 ]
    /\ UNCHANGED <<walk_vars, store_vars, sel_vars>>

\* line 370: store.embed_query(&params.query).await?
SearchEmbed ==
    /\ query.op = "search"
    /\ query.pc = "embed"
    /\ \E fails \in BOOLEAN :
          query' = [query EXCEPT !.embed_calls = @ + 1,
                                 !.pc = IF fails THEN "returned" ELSE "open",
                                 !.reply = IF fails THEN EmbedErr ELSE Pending]
    /\ UNCHANGED <<walk_vars, store_vars, sel_vars>>

\* line 371: store.chunks_table().await?
SearchOpen ==
    /\ query.op = "search"
    /\ query.pc = "open"
    /\ \E fails \in BOOLEAN :
          query' = IF fails THEN [query EXCEPT !.pc = "returned", !.reply = StoreErr]
                   ELSE [query EXCEPT !.pc = "query", !.table_opens = @ + 1]
    /\ UNCHANGED <<walk_vars, store_vars, sel_vars>>

\* lines 373-439: compile the predicate, run the query, enrich every row
SearchQuery ==
    /\ query.op = "search"
    /\ query.pc = "query"
    /\ \E fails \in BOOLEAN :
          \E reply \in (IF fails THEN {StoreErr} ELSE search_query(query.args)) :
              query' = [query EXCEPT !.pc = "returned", !.reply = reply]
    /\ UNCHANGED <<walk_vars, store_vars, sel_vars>>

NextQuery ==
    \/ StartIngest
    \/ DeleteChunks(1)
    \/ DeleteFigures(1)
    \/ EmbedChunks(1)
    \/ EmbedFigures(1)
    \/ InsertChunks(1)
    \/ InsertFigures(1)
    \/ GetChunk
    \/ GetSection
    \/ GetChapter
    \/ GetFigure
    \/ GetPaperOutline
    \/ ListPapers
    \/ SearchCall
    \/ SearchEmbed
    \/ SearchOpen
    \/ SearchQuery

SpecQuery == InitSeq /\ [][NextQuery]_vars

-----------------------------------------------------------------------------
(* Specification of the outline: ingests of documents with figures outside  *)
(* the chapters that hold text, then one get_paper_outline                  *)

\* a figure before the first h2, one text in chapter 1, a table alone in chapter 2
DocFigureFirst == ParsedFile(<< <<BlkFigure, BlkH2, BlkText>>, <<BlkH2Shared, BlkTable>> >>)

OutlineFiles == {DocFigureFirst, DocSections, DocTwoTexts}

OutlineParams == {Params("K1", PaperP), Params("K2", PaperQ)}

StartOutlineIngest ==
    /\ query = IdleQuery
    /\ hist.n_calls < MaxQueryIngests
    /\ \E params \in OutlineParams, file \in OutlineFiles : Start(1, params, file)

NextOutline ==
    \/ StartOutlineIngest
    \/ DeleteChunks(1)
    \/ DeleteFigures(1)
    \/ EmbedChunks(1)
    \/ EmbedFigures(1)
    \/ InsertChunks(1)
    \/ InsertFigures(1)
    \/ GetPaperOutline

SpecOutline == InitSeq /\ [][NextOutline]_vars

-----------------------------------------------------------------------------
(* Claims about the read operations                                         *)

QueryReturned(op) == query.op = op /\ query.pc = "returned"

QueryOk(op) == QueryReturned(op) /\ query.reply.ok

InvalidScope(params) ==
    \/ params.section_idx # None /\ params.chapter_idx = None
    \/ /\ params.chapter_idx # None
       /\ (params.paper_ids = None \/ params.paper_ids[1] = <<>>)

\* C12: a search whose scope is invalid (section_idx without chapter_idx, or
\* chapter_idx with paper_ids absent or empty) has returned a scope error
\* without having invoked the embedder or opened a table.
C12_ScopeBeforeQuery ==
    (query.op = "search" /\ InvalidScope(query.args)) =>
        /\ query.pc = "returned"
        /\ query.reply = search_scope(query.args)
        /\ ~query.reply.ok
        /\ query.reply.err = "Scope"
        /\ query.embed_calls = 0
        /\ query.table_opens = 0

C12_Witness ==
    /\ QueryReturned("search")
    /\ query.args.chapter_idx # None
    /\ query.args.paper_ids = Some(<<>>)
    /\ query.reply = ScopeErr("chapter_idx requires paper_id")
    /\ chunks_tbl # <<>>

\* the enriched chunks of a successful reply
ChunksOfSections(sections) ==
    UNION {Range(sections[i].chunks) : i \in 1..Len(sections)}

ReturnedChunks ==
    IF QueryOk("get_chunk") THEN {query.reply.val.chunk}
    ELSE IF QueryOk("get_section") THEN Range(query.reply.val.chunks)
    ELSE IF QueryOk("get_chapter") THEN ChunksOfSections(query.reply.val.sections)
    ELSE IF QueryOk("search") THEN {query.reply.val[i].chunk : i \in 1..Len(query.reply.val)}
    ELSE {}

StoredAt(paper_id) == {i \in 1..Len(chunks_tbl) : chunks_tbl[i].paper_id = paper_id}

\* C14: every chunk returned by get_chunk, get_section, get_chapter or search
\* reports the number of stored chunks of its section, the number of distinct
\* sections of its chapter, the number of distinct chapters of its paper,
\* is_first_in_section iff chunk_idx = 0 and is_last_in_section iff
\* chunk_idx + 1 = total_chunks_in_section.
C14_PositionContext ==
    \A c \in ReturnedChunks :
        LET paper == StoredAt(c.paper_id)
            chapter == {i \in paper : chunks_tbl[i].chapter_idx = c.chapter_idx}
            section == {i \in chapter : chunks_tbl[i].section_idx = c.section_idx}
        IN  /\ c.position.total_chunks_in_section = Cardinality(section)
            /\ c.position.total_sections_in_chapter =
                  Cardinality({chunks_tbl[i].section_idx : i \in chapter})
            /\ c.position.total_chapters_in_paper =
                  Cardinality({chunks_tbl[i].chapter_idx : i \in paper})
            /\ c.position.is_first_in_section <=> (c.chunk_idx = 0)
            /\ c.position.is_last_in_section <=>
                  (c.chunk_idx + 1 = c.position.total_chunks_in_section)

C14_Witness ==
    /\ hist.n_calls = 2
    /\ \E c \in ReturnedChunks :
          /\ c.chunk_idx = 1
          /\ c.position.is_last_in_section
          /\ ~c.position.is_first_in_section
          /\ c.position.total_chapters_in_paper = 2

\* C15: get_section returns exactly the stored chunks with the coordinate,
\* in strictly increasing chunk_idx order whatever order the scan yields,
\* total_chunks being their number; with no such chunk it returns Ok with an
\* empty list and total_chunks = 0.
C15_GetSectionSorted ==
    QueryOk("get_section") =>
        LET chunks == query.reply.val.chunks
            stored == {i \in StoredAt(query.args.paper_id) :
                          /\ chunks_tbl[i].chapter_idx = query.args.chapter_idx
                          /\ chunks_tbl[i].section_idx = query.args.section_idx}
        IN  /\ query.reply.val.total_chunks = Cardinality(stored)
            /\ Len(chunks) = Cardinality(stored)
            /\ \E f \in [1..Len(chunks) -> stored] :
                  /\ \A i, j \in 1..Len(chunks) : i # j => f[i] # f[j]
                  /\ \A i \in 1..Len(chunks) :
                        /\ chunks[i].chunk_id = chunks_tbl[f[i]].chunk_id
                        /\ chunks[i].text = chunks_tbl[f[i]].text
                        /\ chunks[i].chunk_idx = chunks_tbl[f[i]].chunk_idx
            /\ \A i \in 1..(Len(chunks) - 1) : chunks[i].chunk_idx < chunks[i + 1].chunk_idx

\* C16: get_chunk(id) and get_figure(id) return not-found, the message
\* holding the id, exactly when no row has the id, and a row with the id
\* otherwise; get_paper_outline(paper_id) returns not-found exactly when the
\* paper has no chunk row, whatever figure rows it has (store failures aside).
C16_NotFoundExactlyOnMiss ==
    /\ (QueryReturned("get_chunk") /\ query.reply # StoreErr) =>
          LET id == query.args.chunk_id
              stored == \E i \in 1..Len(chunks_tbl) : chunks_tbl[i].chunk_id = id
          IN  IF stored THEN query.reply.ok /\ query.reply.val.chunk.chunk_id = id
              ELSE /\ query.reply = NotFound(query.reply.msg)
                   /\ find(query.reply.msg, id) > 0
    /\ (QueryReturned("get_figure") /\ query.reply # StoreErr) =>
          LET id == query.args.figure_id
              stored == \E i \in 1..Len(figures_tbl) : figures_tbl[i].figure_id = id
          IN  IF stored THEN query.reply.ok /\ query.reply.val.figure_id = id
              ELSE /\ query.reply = NotFound(query.reply.msg)
                   /\ find(query.reply.msg, id) > 0
    /\ (QueryReturned("get_paper_outline") /\ query.reply # StoreErr) =>
          IF StoredAt(query.args.paper_id) # {}
          THEN query.reply.ok /\ query.reply.val.paper_id = query.args.paper_id
          ELSE query.reply = NotFound(query.reply.msg)

C16_Witness ==
    /\ QueryReturned("get_paper_outline")
    /\ query.reply = NotFound(Chars("paper not found: ") \o query.args.paper_id)
    /\ \E i \in 1..Len(figures_tbl) : figures_tbl[i].paper_id = query.args.paper_id

\* C17: list_papers returns at most limit rows, at most one per paper_id,
\* and each row's chunk_count and figure_count are the numbers of chunk rows
\* and figure rows stored for its paper_id.
C17_ListPapersCounts ==
    QueryOk("list_papers") =>
        LET papers == query.reply.val
        IN  /\ Len(papers) <= query.args.limit
            /\ \A i, j \in 1..Len(papers) : i # j => papers[i].paper_id # papers[j].paper_id
            /\ \A i \in 1..Len(papers) :
                  /\ papers[i].chunk_count = Cardinality(StoredAt(papers[i].paper_id))
                  /\ papers[i].figure_count =
                        Len(rows_of(figures_tbl, papers[i].paper_id))

\* the stored rows a neighbour preview may stand for: same paper, chapter
\* and section as the chunk, at chunk_idx
SectionRowsAt(c, chunk_idx) ==
    {i \in StoredAt(c.paper_id) :
        /\ chunks_tbl[i].chapter_idx = c.chapter_idx
        /\ chunks_tbl[i].section_idx = c.section_idx
        /\ chunks_tbl[i].chunk_idx = chunk_idx}

\* C33: for every chunk returned by get_chunk the neighbour previews agree
\* with the position flags: prev is absent exactly when is_first_in_section,
\* next is absent exactly when is_last_in_section, and a present prev or next
\* is the chunk of the same paper, chapter and section whose chunk_idx is one
\* lower or one higher.
C33_NeighboursAgreeWithFlags ==
    QueryOk("get_chunk") =>
        LET r == query.reply.val
            c == r.chunk
        IN  /\ (r.prev = None) <=> c.position.is_first_in_section
            /\ (r.next = None) <=> c.position.is_last_in_section
            /\ r.prev # None =>
                  \E i \in SectionRowsAt(c, c.chunk_idx - 1) :
                      r.prev[1].chunk_id = chunks_tbl[i].chunk_id
            /\ r.next # None =>
                  \E i \in SectionRowsAt(c, c.chunk_idx + 1) :
                      r.next[1].chunk_id = chunks_tbl[i].chunk_id

RECURSIVE SumOf(_)
SumOf(numbers) == IF numbers = <<>> THEN 0 ELSE Head(numbers) + SumOf(Tail(numbers))

SectionChunkSum(chapter) ==
    SumOf([i \in 1..Len(chapter.sections) |-> chapter.sections[i].chunk_count])

OutlineChunkSum(outline) ==
    SumOf([i \in 1..Len(outline.chapters) |-> SectionChunkSum(outline.chapters[i])])

OutlineFigureSum(outline) ==
    SumOf([i \in 1..Len(outline.chapters) |-> outline.chapters[i].figure_count])

FiguresStoredAt(paper_id) ==
    {i \in 1..Len(figures_tbl) : figures_tbl[i].paper_id = paper_id}

\* C34 as stated: in every outline total_chunks is the sum of chunk_count
\* over all sections of all chapters and total_figures the sum of
\* figure_count over all chapters, also when a Figure or Table falls in a
\* chapter without text chunk.
C34_OutlineTotals ==
    QueryOk("get_paper_outline") =>
        LET outline == query.reply.val
        IN  /\ outline.total_chunks = OutlineChunkSum(outline)
            /\ outline.total_figures = OutlineFigureSum(outline)

\* C34 amended: total_chunks is the sum of the chunk counts and the number
\* of chunk rows of the paper; total_figures is the number of figure rows of
\* the paper, which is the sum of figure_count plus the figure rows whose
\* chapter holds no chunk row (such a chapter is not in the outline).
C34_OutlineTotalsStored ==
    QueryOk("get_paper_outline") =>
        LET outline == query.reply.val
            listed == {outline.chapters[i].chapter_idx : i \in 1..Len(outline.chapters)}
            stored == FiguresStoredAt(outline.paper_id)
        IN  /\ outline.total_chunks = OutlineChunkSum(outline)
            /\ outline.total_chunks = Cardinality(StoredAt(outline.paper_id))
            /\ listed = {chunks_tbl[i].chapter_idx : i \in StoredAt(outline.paper_id)}
            /\ outline.total_figures = Cardinality(stored)
            /\ outline.total_figures = OutlineFigureSum(outline)
                  + Cardinality({i \in stored : figures_tbl[i].chapter_idx \notin listed})

\* one ingest of the document whose figures lie outside the chapter with text
C34_Witness ==
    /\ QueryOk("get_paper_outline")
    /\ hist.n_calls = 1
    /\ query.reply.val.total_chunks = 1
    /\ query.reply.val.total_figures = 2
    /\ OutlineFigureSum(query.reply.val) = 0

-----------------------------------------------------------------------------
(* papers-core selection.rs: the selection store. A file name is            *)
(* <<stem, extension>>; files.dir maps the names present in the selections  *)
(* directory to inodes and files.data maps live inodes to their content, a  *)
(* sequence of JSON tokens. An open file keeps its inode when its name is   *)
(* renamed or truncated by another caller.                                  *)

selection_path(name) == <<name, "json">>

state_path == <<Chars("state"), "json">>

\* PathBuf::with_extension
with_extension(path, ext) == <<path[1], ext>>

\* the JSON tokens of a file: braces, the name and active members, and one
\* token per element of entries; an absent field is written as null
LBrace == [t |-> "{"]
RBrace == [t |-> "}"]
JsonNull == [null |-> TRUE]
JsonOf(opt) == IF opt = None THEN JsonNull ELSE [v |-> opt[1]]

entry_json(entry) == [t |-> "entry", fields |-> [f \in DOMAIN entry |-> JsonOf(entry[f])]]

\* serde_json::to_string_pretty(&Selection)
selection_json(selection) ==
    <<LBrace, [t |-> "name", name |-> selection.name]>>
        \o [i \in 1..Len(selection.entries) |-> entry_json(selection.entries[i])]
        \o <<RBrace>>

\* serde_json::to_string_pretty(&SelectionState)
state_json(state) == <<LBrace, [t |-> "active", active |-> JsonOf(state.active)], RBrace>>

JsonErr == [ok |-> FALSE, err |-> "Json"]

IoErr == [ok |-> FALSE, err |-> "Io"]

SelNotFound(name) == [ok |-> FALSE, err |-> "NotFound", name |-> name]

\* a complete JSON object: braces at both ends and none in between
is_object(content) ==
    /\ Len(content) >= 2
    /\ content[1] = LBrace
    /\ content[Len(content)] = RBrace
    /\ \A i \in 2..(Len(content) - 1) : content[i] \notin {LBrace, RBrace}

OptOf(json) == IF json = JsonNull THEN None ELSE Some(json.v)

\* serde_json::from_str::<Selection>
selection_from_json(content) ==
    IF /\ is_object(content)
       /\ Len(content) >= 3
       /\ content[2].t = "name"
       /\ \A i \in 3..(Len(content) - 1) : content[i].t = "entry"
    THEN OkOf([ name |-> content[2].name,
                entries |-> [i \in 1..(Len(content) - 3) |->
                    [f \in DOMAIN content[i + 2].fields |-> OptOf(content[i + 2].fields[f])]] ])
    ELSE JsonErr

DefaultState == [active |-> None]

\* load_state: any failure to read or parse gives the default state; members
\* other than active are ignored and a missing active is None
state_from_json(content) ==
    IF ~is_object(content) THEN DefaultState
    ELSE LET at == {i \in 2..(Len(content) - 1) : content[i].t = "active"}
         IN  IF Cardinality(at) = 1
             THEN [active |-> OptOf(content[CHOOSE i \in at : TRUE].active)]
             ELSE DefaultState

\* u8 order of the characters the names are made of
Code(ch) ==
    CASE ch = "-" -> 45 [] ch = "0" -> 48 [] ch = "1" -> 49 [] ch = "2" -> 50
      [] ch = "3" -> 51 [] ch = "B" -> 66 [] ch = "_" -> 95 [] ch = "a" -> 97
      [] ch = "b" -> 98 [] ch = "e" -> 101 [] ch = "s" -> 115 [] ch = "t" -> 116

\* String::cmp
RECURSIVE str_lt(_, _)
str_lt(a, b) ==
    IF b = <<>> THEN FALSE
    ELSE IF a = <<>> THEN TRUE
    ELSE IF Code(a[1]) # Code(b[1]) THEN Code(a[1]) < Code(b[1])
    ELSE str_lt(Tail(a), Tail(b))

\* names.sort()
RECURSIVE sorted_names(_)
sorted_names(S) ==
    IF S = {} THEN <<>>
    ELSE LET m == CHOOSE x \in S : \A y \in S \ {x} : str_lt(x, y)
         IN  <<m>> \o sorted_names(S \ {m})

\* list_selection_names without the state.json exception
list_selection_names_with_state(dir) ==
    sorted_names({path[1] : path \in {q \in DOMAIN dir : q[2] = "json"}})

list_selection_names(dir) ==
    sorted_names({path[1] : path \in {q \in DOMAIN dir : q[2] = "json" /\ q # state_path}})

\* str::parse::<usize> of a string of digits, None for any other string
RECURSIVE digits_value(_, _)
digits_value(str, acc) ==
    IF str = <<>> THEN acc
    ELSE digits_value(Tail(str), 10 * acc + (Code(str[1]) - 48))

parse_usize(str) ==
    IF str # <<>> /\ \A i \in 1..Len(str) : str[i] \in {"0", "1", "2", "3"}
    THEN Some(digits_value(str, 0))
    ELSE None

UpperCase == Chars("ABCDEFGHIJKLMNOPQRSTUVWXYZ")
LowerCase == Chars("abcdefghijklmnopqrstuvwxyz")

\* str::to_lowercase over ASCII
to_lowercase(str) ==
    [i \in 1..Len(str) |->
        IF \E k \in 1..26 : UpperCase[k] = str[i]
        THEN LowerCase[CHOOSE k \in 1..26 : UpperCase[k] = str[i]]
        ELSE str[i]]

\* resolve_selection that tries the name before the index
resolve_selection_name_first(dir, input) ==
    LET names == list_selection_names(dir)
        idx == parse_usize(input)
        hits == {i \in 1..Len(names) : to_lowercase(names[i]) = to_lowercase(input)}
    IN  IF hits # {} THEN OkOf(names[CHOOSE i \in hits : \A j \in hits : i <= j])
        ELSE IF idx = None \/ idx[1] = 0 \/ idx[1] > Len(names) THEN SelNotFound(input)
        ELSE OkOf(names[idx[1]])

resolve_selection(dir, input) ==
    LET names == list_selection_names(dir)
        idx == parse_usize(input)
    IN  IF idx # None
        THEN IF idx[1] = 0 \/ idx[1] > Len(names) THEN SelNotFound(input)
             ELSE OkOf(names[idx[1]])
        ELSE LET hits == {i \in 1..Len(names) : to_lowercase(names[i]) = to_lowercase(input)}
             IN  IF hits = {} THEN SelNotFound(input)
                 ELSE OkOf(names[CHOOSE i \in hits : \A j \in hits : i <= j])

\* atomic_write that writes the target itself
atomic_write_tmp_in_place(path) == path

\* atomic_write, line 212: the temporary path of a target
atomic_write_tmp(path) == with_extension(path, "tmp")

Unlink(dir, path) == [q \in DOMAIN dir \ {path} |-> dir[q]]

Link(dir, path, content) ==
    [q \in DOMAIN dir \cup {path} |-> IF q = path THEN content ELSE dir[q]]

\* the open files after the inode named from is renamed to to, or unlinked
\* when to is Orphan; an open file that was named to loses its name
Reopened(callers, from, to) ==
    [p \in Procs |->
        IF callers[p].fd = from THEN [callers[p] EXCEPT !.fd = to]
        ELSE IF callers[p].fd = to THEN [callers[p] EXCEPT !.fd = Orphan]
        ELSE callers[p]]

SelReady(self) == sel[self].pc \in {"idle", "returned"}

SelReturn(callers, self, result) ==
    [callers EXCEPT ![self].pc = "returned", ![self].result = result]

\* save_selection, lines 193-197 (create_dir_all makes the directory, which
\* the model does not tell from an empty one)
SaveSelection(self, selection) ==
    /\ SelReady(self)
    /\ sel' = [sel EXCEPT ![self] =
          [Caller("create_tmp", "save_selection", selection.name,
                  selection_path(selection.name))
              EXCEPT !.value = Some(selection), !.content = selection_json(selection)]]
    /\ UNCHANGED <<files, walk_vars, store_vars, query_vars>>

\* save_state, lines 168-172
SaveState(self, state) ==
    /\ SelReady(self)
    /\ sel' = [sel EXCEPT ![self] =
          [Caller("create_tmp", "save_state", Chars("state"), state_path)
              EXCEPT !.value = Some(state), !.content = state_json(state)]]
    /\ UNCHANGED <<files, walk_vars, store_vars, query_vars>>

\* atomic_write, line 213, first half: fs::write opens the temporary path
\* with O_CREAT | O_TRUNC
CreateTmp(self) ==
    /\ sel[self].pc = "create_tmp"
    /\ \E fails \in BOOLEAN :
          IF fails
          THEN /\ sel' = SelReturn(sel, self, IoErr)
               /\ UNCHANGED files
          ELSE LET tmp == atomic_write_tmp(sel[self].path)
               IN  /\ sel' = [sel EXCEPT ![self].pc = "write_tmp", ![self].fd = tmp]
                   /\ files' = [files EXCEPT !.dir = Link(@, tmp, <<>>)]
    /\ UNCHANGED <<walk_vars, store_vars, query_vars>>

\* atomic_write, line 213, second half: write_all from offset 0 into the
\* open file, whatever name it has by now, and close it
WriteTmp(self) ==
    /\ sel[self].pc = "write_tmp"
    /\ LET content == sel[self].content
           fd == sel[self].fd
       IN  /\ sel' = [sel EXCEPT ![self].pc = "rename_tmp", ![self].fd = Orphan]
           /\ files' = IF fd = Orphan THEN files
                       ELSE [files EXCEPT !.dir[fd] =
                               content \o SubSeq(@, Len(content) + 1, Len(@))]
    /\ UNCHANGED <<walk_vars, store_vars, query_vars>>

\* atomic_write, line 214: rename the temporary path over the target
RenameTmp(self) ==
    /\ sel[self].pc = "rename_tmp"
    /\ LET tmp == atomic_write_tmp(sel[self].path)
           path == sel[self].path
       IN  \E fails \in BOOLEAN :
          IF fails \/ tmp \notin DOMAIN files.dir
          THEN /\ sel' = SelReturn(sel, self, IoErr)
               /\ UNCHANGED files
          ELSE /\ sel' = [SelReturn(Reopened(sel, tmp, path), self, OkUnit)
                             EXCEPT ![self].installed = Some(files.dir[tmp])]
               /\ files' = [files EXCEPT
                     !.dir = IF tmp = path THEN @
                             ELSE Link(Unlink(@, tmp), path, files.dir[tmp]),
                     !.last = IF sel[self].op = "save_selection"
                              THEN [@ EXCEPT ![sel[self].name] = sel[self].value]
                              ELSE @]
    /\ UNCHANGED <<walk_vars, store_vars, query_vars>>

\* delete_selection, lines 203-208
DeleteSelection(self, name) ==
    /\ SelReady(self)
    /\ LET path == selection_path(name)
           called == Caller("returned", "delete_selection", name, path)
       IN  IF path \notin DOMAIN files.dir
           THEN /\ sel' = [sel EXCEPT ![self] = [called EXCEPT !.result = SelNotFound(name)]]
                /\ UNCHANGED files
           ELSE \E fails \in BOOLEAN :
                   IF fails
                   THEN /\ sel' = [sel EXCEPT ![self] = [called EXCEPT !.result = IoErr]]
                        /\ UNCHANGED files
                   ELSE /\ sel' = [Reopened(sel, path, Orphan) EXCEPT ![self] =
                                      [called EXCEPT !.result = OkUnit]]
                        /\ files' = [files EXCEPT !.dir = Unlink(@, path),
                                                  !.last[name] = None]
    /\ UNCHANGED <<walk_vars, store_vars, query_vars>>

\* load_selection, lines 184-187, and load_state, lines 154-157: path.exists()
LoadExists(self, op, name, path) ==
    /\ SelReady(self)
    /\ sel' = [sel EXCEPT ![self] =
          IF path \in DOMAIN files.dir THEN Caller("read", op, name, path)
          ELSE [Caller("returned", op, name, path) EXCEPT
                   !.result = IF op = "load_state" THEN OkOf(DefaultState)
                              ELSE SelNotFound(name)]]
    /\ UNCHANGED <<files, walk_vars, store_vars, query_vars>>

LoadSelection(self, name) == LoadExists(self, "load_selection", name, selection_path(name))

LoadState(self) == LoadExists(self, "load_state", Chars("state"), state_path)

\* load_selection, lines 188-189, and load_state, lines 158-164:
\* read_to_string and from_str
LoadRead(self) ==
    /\ sel[self].pc = "read"
    /\ LET path == sel[self].path
           state == sel[self].op = "load_state"
       IN  sel' = IF path \notin DOMAIN files.dir
                  THEN SelReturn(sel, self, IF state THEN OkOf(DefaultState) ELSE IoErr)
                  ELSE [SelReturn(sel, self,
                                  IF state THEN OkOf(state_from_json(files.dir[path]))
                                  ELSE selection_from_json(files.dir[path]))
                           EXCEPT ![self].seen = Some(files.dir[path])]
    /\ UNCHANGED <<files, walk_vars, store_vars, query_vars>>

\* resolve_selection over the directory as it is at the call
ResolveSelection(self, input) ==
    /\ SelReady(self)
    /\ sel' = [sel EXCEPT ![self] =
          [Caller("returned", "resolve_selection", input, Orphan)
              EXCEPT !.result = resolve_selection(files.dir, input),
                     !.seen = Some(list_selection_names(files.dir))]]
    /\ UNCHANGED <<files, walk_vars, store_vars, query_vars>>

\* Inputs of the selection store: an entry with every field populated and
\* one with most fields absent, in lists of different lengths
EntryFull ==
    [ zotero_key |-> Some("ABCD1234"), openalex_id |-> Some("W1"),
      doi |-> Some("10.1/x"), title |-> Some("T"), authors |-> Some(<<"A", "B">>),
      year |-> Some(2020), issn |-> Some(<<"1234-5678">>), isbn |-> Some(<<"978-0">>) ]

EntrySparse ==
    [ zotero_key |-> None, openalex_id |-> None, doi |-> Some("10.1/y"), title |-> None,
      authors |-> None, year |-> None, issn |-> None, isbn |-> None ]

EntryLists == {<<>>, <<EntryFull, EntrySparse>>}

SelectionsOf(names, lists) == [name : names, entries : lists]

ResolveInputs ==
    {Chars("0"), Chars("1"), Chars("2"), Chars("3"), Chars("10"), Chars("a"), Chars("b")}

\* the names of the save, delete and load sequences
SeqNames == {Chars("a"), Chars("B")}

\* the names two callers save at once
ConcNames == {Chars("a")}

\* One caller at a time: saves, deletes and loads of selections, each call
\* running to its return before the next
NextSelSeq ==
    \/ \E selection \in SelectionsOf(SeqNames, EntryLists) : SaveSelection(1, selection)
    \/ CreateTmp(1)
    \/ WriteTmp(1)
    \/ RenameTmp(1)
    \/ \E name \in SeqNames : DeleteSelection(1, name)
    \/ \E name \in SeqNames : LoadSelection(1, name)
    \/ LoadRead(1)

SpecSelSeq == InitSeq /\ [][NextSelSeq]_vars

\* One caller at a time: the directory filled and emptied by saves, state
\* saves and deletes, and names resolved against it
NextSelList ==
    \/ \E selection \in SelectionsOf(SelNames, {<<>>}) : SaveSelection(1, selection)
    \/ SaveState(1, [active |-> Some(Chars("a"))])
    \/ CreateTmp(1)
    \/ WriteTmp(1)
    \/ RenameTmp(1)
    \/ \E name \in SelNames : DeleteSelection(1, name)
    \/ \E input \in ResolveInputs : ResolveSelection(1, input)

SpecSelList == InitSeq /\ [][NextSelList]_vars

\* Two callers of the same process or of two processes, no lock, their
\* file-system calls interleaved
NextSelConc ==
    \E self \in Procs :
        \/ \E selection \in SelectionsOf(ConcNames, EntryLists) : SaveSelection(self, selection)
        \/ SaveState(self, [active |-> Some(Chars("a"))])
        \/ CreateTmp(self)
        \/ WriteTmp(self)
        \/ RenameTmp(self)
        \/ \E name \in ConcNames : LoadSelection(self, name)
        \/ LoadState(self)
        \/ LoadRead(self)

SpecSelConc == InitConc /\ [][NextSelConc]_vars

\* the complete contents a save can write at a path
CompleteContents(path) ==
    IF path = state_path THEN {state_json([active |-> Some(Chars("a"))])}
    ELSE {selection_json(selection) :
            selection \in {x \in SelectionsOf(SelNames, EntryLists) :
                             selection_path(x.name) = path}}

SelReturned(p, op) == sel[p].pc = "returned" /\ sel[p].op = op

\* C18: under any interleaving of concurrent saves of one name (or of the
\* state) with concurrent loads, a reader that finds the file reads the
\* complete content of one save, never a partial one, and a save that
\* reports success has installed its own complete content.
C18_AtomicWrites ==
    \A p \in Procs :
        /\ (sel[p].pc = "returned" /\ sel[p].op \in {"load_selection", "load_state"}
                /\ sel[p].seen # None)
              => sel[p].seen[1] \in CompleteContents(sel[p].path)
        /\ (sel[p].pc = "returned" /\ sel[p].op \in {"save_selection", "save_state"}
                /\ sel[p].result = OkUnit)
              => sel[p].installed = Some(sel[p].content)

\* the decimal strings of the indexes asked for
IndexString == [i \in {0, 1, 2, 3, 10} |->
              IF i = 10 THEN Chars("10")
              ELSE <<CASE i = 0 -> "0" [] i = 1 -> "1" [] i = 2 -> "2" [] i = 3 -> "3">>]

\* the selections on disk: the stems of the .json files other than state.json
OnDisk == {name \in SelNames : selection_path(name) \in DOMAIN files.dir}

\* the 1-based place of a name in the ascending listing
PlaceOf(name) == 1 + Cardinality({other \in OnDisk : str_lt(other, name)})

\* C19: with L selections on disk, resolve_selection of the decimal string
\* of i returns the i-th name of the ascending listing (state.json not
\* counted) for every i in 1..L, and not-found for 0 and for every index
\* above L.
C19_ResolveIndexBijection ==
    SelReturned(1, "resolve_selection") =>
        \A i \in DOMAIN IndexString :
            sel[1].name = IndexString[i] =>
                IF 1 <= i /\ i <= Cardinality(OnDisk)
                THEN /\ sel[1].result.ok
                     /\ sel[1].result.val \in OnDisk
                     /\ PlaceOf(sel[1].result.val) = i
                ELSE sel[1].result = SelNotFound(IndexString[i])

\* three selections and state.json on disk, and the index 3 resolved
C19_Witness ==
    /\ SelReturned(1, "resolve_selection")
    /\ state_path \in DOMAIN files.dir
    /\ Cardinality(OnDisk) = 3
    /\ sel[1].name = IndexString[3]
    /\ sel[1].result = OkOf(Chars("a"))

\* C20: after any sequence of saves and deletes, load_selection(name) is
\* not-found when the name was never saved or was deleted since its last
\* save, and otherwise returns the name and the entries, every field of
\* every entry in order, of the most recent save of that name.
C20_SaveLoadRoundTrip ==
    SelReturned(1, "load_selection") =>
        sel[1].result = IF files.last[sel[1].name] = None THEN SelNotFound(sel[1].name)
                        ELSE OkOf(files.last[sel[1].name][1])

\* a selection saved twice with different entries, another name saved in
\* between and still on disk, and the first one loaded
C20_Witness ==
    /\ SelReturned(1, "load_selection")
    /\ sel[1].name = Chars("a")
    /\ sel[1].result = OkOf([name |-> Chars("a"), entries |-> <<EntryFull, EntrySparse>>])
    /\ files.last[Chars("B")] = Some([name |-> Chars("B"), entries |-> <<>>])
    /\ atomic_write_tmp(selection_path(Chars("B"))) \in DOMAIN files.dir

-----------------------------------------------------------------------------
(* selection.rs: DOI normalization and the deduplication predicates         *)

\* str::strip_prefix(..).unwrap_or(str)
strip_prefix_or(str, prefix) ==
    IF starts_with(str, prefix) THEN SubSeq(str, Len(prefix) + 1, Len(str)) ELSE str

HttpsDoi == Chars("https://doi.org/")
HttpDoi == Chars("http://doi.org/")
DoiColon == Chars("doi:")
OpenAlexUrl == Chars("https://openalex.org/")

\* the first of the three prefixes that matches is taken off, once
strip_doi_prefix(doi) ==
    IF starts_with(doi, HttpsDoi) THEN strip_prefix_or(doi, HttpsDoi)
    ELSE IF starts_with(doi, HttpDoi) THEN strip_prefix_or(doi, HttpDoi)
    ELSE strip_prefix_or(doi, DoiColon)

normalize_doi(doi) == to_lowercase(strip_doi_prefix(doi))

entry_matches_key(entry, zotero_key) == entry.zotero_key = Some(zotero_key)

entry_matches_openalex(entry, oa_id) == entry.openalex_id = Some(oa_id)

\* entry_matches_doi that compares the DOIs as they are written
entry_matches_doi_verbatim(entry, doi) == entry.doi = Some(doi)

entry_matches_doi(entry, doi) ==
    IF entry.doi = None THEN FALSE ELSE normalize_doi(entry.doi[1]) = normalize_doi(doi)

-----------------------------------------------------------------------------
(* selection.rs: resolve_paper. The reference manager and the scholarly     *)
(* service are outside the program: each call's reply is an input           *)

DigitChars == Chars("0123456789")

is_ascii_digit(ch) == \E k \in 1..10 : DigitChars[k] = ch

\* str::trim
RECURSIVE trim_start(_)
trim_start(str) ==
    IF str # <<>> /\ is_whitespace(str[1]) THEN trim_start(Tail(str)) ELSE str

RECURSIVE trim_end(_)
trim_end(str) ==
    IF str # <<>> /\ is_whitespace(str[Len(str)])
    THEN trim_end(SubSeq(str, 1, Len(str) - 1)) ELSE str

\* str::trim that leaves the string as it is
trim_nothing(str) == str

trim(str) == trim_end(trim_start(str))

\* the key shape of the reference manager: eight characters, upper-case
\* letters or digits
looks_like_zotero_key(input) ==
    /\ Len(input) = 8
    /\ \A i \in 1..8 : is_ascii_digit(input[i]) \/ \E k \in 1..26 : UpperCase[k] = input[i]

looks_like_doi(input) ==
    LET str == strip_doi_prefix(input)
    IN  starts_with(str, Chars("10.")) /\ find(str, <<"/">>) # 0

looks_like_openalex_work_id(input) ==
    LET id == strip_prefix_or(input, OpenAlexUrl)
    IN  /\ Len(id) > 1
        /\ id[1] = "W"
        /\ \A i \in 2..Len(id) : is_ascii_digit(id[i])

\* str::parse::<u32> of a string of digits
RECURSIVE digits_u32(_, _)
digits_u32(str, acc) ==
    IF str = <<>> THEN acc
    ELSE digits_u32(Tail(str),
                    10 * acc + (CHOOSE k \in 1..10 : DigitChars[k] = str[1]) - 1)

\* d.split('-').next() and y.parse().ok()
year_of(date) ==
    LET dash == find(date, <<"-">>)
        first == IF dash = 0 THEN date ELSE SubSeq(date, 1, dash - 1)
    IN  IF first # <<>> /\ \A i \in 1..Len(first) : is_ascii_digit(first[i])
        THEN Some(digits_u32(first, 0))
        ELSE None

\* the filter_map of fill_from_zotero_item over one creator
creator_name(c) ==
    LET joined == IF c.first_name # None /\ c.last_name # None
                  THEN trim(c.first_name[1] \o <<" ">> \o c.last_name[1])
                  ELSE <<>>
    IN  IF joined # <<>> THEN Some(joined)
        ELSE IF c.name # None /\ c.name[1] # <<>> THEN c.name
        ELSE None

RECURSIVE filter_map_some(_)
filter_map_some(opts) ==
    IF opts = <<>> THEN <<>>
    ELSE Head(opts) \o filter_map_some(Tail(opts))

\* Some(vec![x]) for a non-empty string, unchanged otherwise
single_if_non_empty(old, opt) ==
    IF old = None /\ opt # None /\ opt[1] # <<>> THEN Some(<<opt[1]>>) ELSE old

fill_from_zotero_item(entry, item) ==
    LET authors == filter_map_some([i \in 1..Len(item.creators) |->
                                       creator_name(item.creators[i])])
        date_str == IF item.parsed_date # None THEN item.parsed_date ELSE item.date
    IN  [ entry EXCEPT
            !.title = IF @ = None THEN item.title ELSE @,
            !.authors = IF @ = None /\ authors # <<>> THEN Some(authors) ELSE @,
            !.year = IF @ = None
                     THEN (IF date_str = None THEN None ELSE year_of(date_str[1]))
                     ELSE @,
            !.doi = IF @ = None
                    THEN (IF item.doi = None THEN None ELSE Some(strip_doi_prefix(item.doi[1])))
                    ELSE @,
            !.issn = single_if_non_empty(@, item.issn),
            !.isbn = single_if_non_empty(@, item.isbn) ]

\* the display names of the authorships that have an author with a name
authorship_name(a) == IF a.author = None THEN None ELSE a.author[1].display_name

\* fill_from_oa_work that takes the work's title whatever the entry has
fill_from_oa_work_title_over(entry, work) ==
    [ entry EXCEPT !.openalex_id = Some(strip_prefix_or(work.id, OpenAlexUrl)),
                   !.title = IF work.display_name # None THEN work.display_name
                             ELSE work.title ]

fill_from_oa_work(entry, work) ==
    LET names == IF work.authorships = None THEN <<>>
                 ELSE filter_map_some([i \in 1..Len(work.authorships[1]) |->
                                          authorship_name(work.authorships[1][i])])
    IN  [ entry EXCEPT
            !.openalex_id = IF @ = None THEN Some(strip_prefix_or(work.id, OpenAlexUrl)) ELSE @,
            !.doi = IF @ = None
                    THEN (IF work.doi = None THEN None
                          ELSE Some(IF starts_with(work.doi[1], HttpsDoi)
                                    THEN strip_prefix_or(work.doi[1], HttpsDoi)
                                    ELSE strip_prefix_or(work.doi[1], HttpDoi)))
                    ELSE @,
            !.title = IF @ = None
                      THEN (IF work.display_name # None THEN work.display_name ELSE work.title)
                      ELSE @,
            !.authors = IF @ = None /\ names # <<>> THEN Some(names) ELSE @,
            !.year = IF @ = None THEN work.publication_year ELSE @,
            !.issn = IF @ = None THEN work.source_issn ELSE @ ]

\* DOIs as users and services write them
DoiInputs ==
    { Chars("10.1/x"), Chars("10.1/X"), Chars("10.2/y"),
      Chars("doi:10.1/x"), Chars("DOI:10.1/x"),
      Chars("https://doi.org/10.1/X"), Chars("http://doi.org/10.1/x"),
      Chars("HTTPS://DOI.ORG/10.1/x"),
      Chars("doi:doi:10.1/x"), Chars("https://doi.org/doi:10.1/x"),
      Chars("") }

NoEntry ==
    [ zotero_key |-> None, openalex_id |-> None, doi |-> None, title |-> None,
      authors |-> None, year |-> None, issn |-> None, isbn |-> None ]

NormalizeDoi(doi) ==
    /\ query' = [op |-> "normalize_doi", doi |-> doi, reply |-> normalize_doi(doi)]
    /\ UNCHANGED <<walk_vars, store_vars, sel_vars>>

EntryMatchesDoi(stored, doi) ==
    /\ query' = [ op |-> "entry_matches_doi", stored |-> stored, doi |-> doi,
                  reply |-> entry_matches_doi([NoEntry EXCEPT !.doi = stored], doi) ]
    /\ UNCHANGED <<walk_vars, store_vars, sel_vars>>

NextDoi ==
    \/ \E doi \in DoiInputs : NormalizeDoi(doi)
    \/ \E stored \in {None} \cup {Some(doi) : doi \in DoiInputs}, doi \in DoiInputs :
          EntryMatchesDoi(stored, doi)

SpecDoi == InitSeq /\ [][NextDoi]_vars

\* C21: normalizing a normalized DOI changes nothing, for every input
\* string, and entry_matches_doi holds exactly when the entry has a DOI whose
\* normal form equals that of the DOI asked for.
C21_NormalizeDoiIdempotent ==
    /\ query.op = "normalize_doi" => normalize_doi(query.reply) = query.reply
    /\ query.op = "entry_matches_doi" =>
          (query.reply <=> /\ query.stored # None
                           /\ normalize_doi(query.stored[1]) = normalize_doi(query.doi))

-----------------------------------------------------------------------------
(* resolve_paper against the replies of the two services *)

UpstreamErr(svc) == [ok |-> FALSE, err |-> "Upstream", svc |-> svc]

NoSuchItem == [ok |-> FALSE, err |-> "Status404"]

CannotResolve(input) == [ok |-> FALSE, err |-> "CannotResolve", input |-> input]

Min(a, b) == IF a <= b THEN a ELSE b

\* ZoteroClient::get_item against a library in which matches are the items
\* with that key
get_item(world) ==
    IF world.z_fails THEN UpstreamErr("zotero")
    ELSE IF world.z_matches = <<>> THEN NoSuchItem
    ELSE OkOf(world.z_matches[1])

\* ZoteroClient::list_top_items: the service returns at most limit of the
\* items that match
list_top_items(matches, fails, limit) ==
    IF fails THEN UpstreamErr("zotero")
    ELSE OkOf(SubSeq(matches, 1, Min(limit, Len(matches))))

\* OpenAlexClient::get_work
get_work(world) ==
    IF world.oa_fails THEN UpstreamErr("openalex")
    ELSE IF world.oa_work = None THEN NoSuchItem
    ELSE OkOf(world.oa_work[1])

\* OpenAlexClient::list_works with per_page = 1
list_works(world) ==
    IF world.oa_fails THEN UpstreamErr("openalex")
    ELSE OkOf(world.oa_work)

\* entry.zotero_key = Some(item.key); fill_from_zotero_item(entry, item)
with_item(entry, item) ==
    fill_from_zotero_item([entry EXCEPT !.zotero_key = Some(item.key)], item)

\* step 4 that copies every unset field from the found item
retry_fill_all(entry, item) ==
    fill_from_zotero_item([entry EXCEPT !.zotero_key = Some(item.key)], item)

\* step 4 on a found item: the key, and the ISBN when it is still unset
retry_fill(entry, item) ==
    [entry EXCEPT !.zotero_key = Some(item.key), !.isbn = single_if_non_empty(@, item.isbn)]

\* resolve_paper, lines 316-348: the reference-manager call of the first
\* step, None when none is issued
zotero_call(input, world) ==
    IF ~world.zotero THEN None
    ELSE IF looks_like_zotero_key(input)
    THEN Some([svc |-> "zotero", call |-> "get_item", q |-> input, limit |-> 0,
               reply |-> get_item(world)])
    ELSE IF looks_like_doi(input)
    THEN Some([svc |-> "zotero", call |-> "list_top_items", q |-> strip_doi_prefix(input),
               limit |-> 1, reply |-> list_top_items(world.z_matches, world.z_fails, 1)])
    ELSE IF ~looks_like_openalex_work_id(input)
    THEN Some([svc |-> "zotero", call |-> "text_search", q |-> input,
               limit |-> 1, reply |-> list_top_items(world.z_matches, world.z_fails, 1)])
    ELSE None

zotero_step(input, world) ==
    LET made == zotero_call(input, world)
    IN  IF made = None \/ ~made[1].reply.ok THEN NoEntry
        ELSE LET val == made[1].reply.val
             IN  IF made[1].call = "get_item" THEN with_item(NoEntry, val)
                 ELSE IF made[1].call = "list_top_items"
                 THEN (IF val # <<>> THEN with_item(NoEntry, val[1]) ELSE NoEntry)
                 ELSE (IF Len(val) = 1 THEN with_item(NoEntry, val[1]) ELSE NoEntry)

\* resolve_via_openalex: the call and the work it gives, errors dropped
openalex_call(input, world) ==
    IF looks_like_doi(input)
    THEN [svc |-> "openalex", call |-> "get_work",
          q |-> DoiColon \o strip_doi_prefix(input), limit |-> 0, reply |-> get_work(world)]
    ELSE IF looks_like_openalex_work_id(input)
    THEN [svc |-> "openalex", call |-> "get_work",
          q |-> strip_prefix_or(input, OpenAlexUrl), limit |-> 0, reply |-> get_work(world)]
    ELSE [svc |-> "openalex", call |-> "list_works", q |-> input, limit |-> 1,
          reply |-> list_works(world)]

resolve_via_openalex(input, world) ==
    LET reply == openalex_call(input, world).reply
    IN  IF ~reply.ok THEN None
        ELSE IF openalex_call(input, world).call = "get_work" THEN Some(reply.val)
        ELSE reply.val

\* resolve_paper, lines 356-365: the retry of the reference manager by DOI
retry_call(entry, world) ==
    IF entry.zotero_key = None /\ world.zotero /\ entry.doi # None
    THEN Some([svc |-> "zotero", call |-> "retry", q |-> strip_doi_prefix(entry.doi[1]),
               limit |-> 1, reply |-> list_top_items(world.r_matches, world.r_fails, 1)])
    ELSE None

\* the entry, the reply and the calls of resolve_paper, with the entry as
\* it was after the first step and after the scholarly merge
resolve_paper(raw, world) ==
    LET input == trim(raw)
        step1 == zotero_step(input, world)
        oa_work == resolve_via_openalex(input, world)
        merged == IF oa_work = None THEN step1 ELSE fill_from_oa_work(step1, oa_work[1])
        retry == IF oa_work = None THEN None ELSE retry_call(merged, world)
        entry == IF retry # None /\ retry[1].reply.ok /\ retry[1].reply.val # <<>>
                 THEN retry_fill(merged, retry[1].reply.val[1])
                 ELSE merged
    IN  [ input |-> input, step1 |-> step1, oa_work |-> oa_work, merged |-> merged,
          entry |-> entry,
          calls |-> zotero_call(input, world) \o <<openalex_call(input, world)>> \o retry,
          reply |-> IF /\ entry.zotero_key = None /\ entry.openalex_id = None
                       /\ entry.doi = None /\ entry.title = None
                    THEN CannotResolve(input)
                    ELSE OkOf(entry) ]

\* Library items and works as the services return them
ItemFull ==
    [ key |-> Chars("LF4MJWZK"), title |-> Some("Zotero Title"),
      creators |-> << [first_name |-> Some(Chars("Ann")), last_name |-> Some(Chars("Lee")),
                       name |-> None],
                      [first_name |-> None, last_name |-> None,
                       name |-> Some(Chars("Consortium"))],
                      [first_name |-> Some(Chars("")), last_name |-> Some(Chars("")),
                       name |-> Some(Chars(""))] >>,
      parsed_date |-> Some(Chars("2019-03-01")), date |-> Some(Chars("March 2019")),
      doi |-> Some(Chars("https://doi.org/10.1/z")),
      issn |-> Some(Chars("1234-5678")), isbn |-> Some(Chars("978-0")) ]

ItemBare ==
    [ key |-> Chars("ABCD1234"), title |-> None, creators |-> <<>>,
      parsed_date |-> None, date |-> Some(Chars("May 2020")), doi |-> None,
      issn |-> Some(Chars("")), isbn |-> Some(Chars("")) ]

WorkFull ==
    [ id |-> Chars("https://openalex.org/W2741"), doi |-> Some(Chars("https://doi.org/10.1/x")),
      display_name |-> Some("OpenAlex Title"), title |-> Some("OpenAlex Title"),
      authorships |-> Some(<< [author |-> Some([display_name |-> Some(Chars("Bob Ray"))])],
                              [author |-> None] >>),
      publication_year |-> Some(2021), source_issn |-> Some(<<Chars("1111-2222")>>) ]

WorkNameless ==
    [ id |-> Chars("W99"), doi |-> None, display_name |-> None, title |-> Some("Other"),
      authorships |-> Some(<< [author |-> Some([display_name |-> None])] >>),
      publication_year |-> None, source_issn |-> Some(<<>>) ]

WorkDoiOnly ==
    [ id |-> Chars("https://openalex.org/W5"), doi |-> Some(Chars("http://doi.org/10.2/y")),
      display_name |-> None, title |-> None, authorships |-> None,
      publication_year |-> None, source_issn |-> None ]

\* what the services hold and whether they fail, for one call of resolve_paper
Worlds ==
    [ zotero : BOOLEAN,
      z_matches : {<<>>, <<ItemFull>>, <<ItemBare>>, <<ItemFull, ItemBare>>},
      z_fails : BOOLEAN,
      r_matches : {<<>>, <<ItemFull>>, <<ItemBare>>},
      r_fails : BOOLEAN,
      oa_work : {None, Some(WorkFull), Some(WorkNameless), Some(WorkDoiOnly)},
      oa_fails : BOOLEAN ]

PaperInputs ==
    { Chars("LF4MJWZK"), Chars("10.1/x"), Chars("https://doi.org/10.1/X"), Chars("W2741"),
      Chars("https://openalex.org/W2741"), Chars("deep learning"), Chars("") }

Pads == {Chars(""), Chars(" ")}

ResolvePaper(core, pad, world) ==
    /\ query = IdleQuery
    /\ query' = [ op |-> "resolve_paper", core |-> core, raw |-> pad \o core \o pad,
                  world |-> world, res |-> resolve_paper(pad \o core \o pad, world) ]
    /\ UNCHANGED <<walk_vars, store_vars, sel_vars>>

NextResolve == \E core \in PaperInputs, pad \in Pads, world \in Worlds : ResolvePaper(core, pad, world)

SpecResolve == InitSeq /\ [][NextResolve]_vars

Resolved == query.op = "resolve_paper"

NothingResolved(entry) ==
    /\ entry.zotero_key = None
    /\ entry.openalex_id = None
    /\ entry.doi = None
    /\ entry.title = None

\* C23: in every entry resolve_paper returns, authors, issn and isbn are
\* each absent or a non-empty list, whatever the services reply.
C23_ListsNeverEmpty ==
    (Resolved /\ query.res.reply.ok) =>
        \A f \in {"authors", "issn", "isbn"} :
            query.res.reply.val[f] = None \/ Len(query.res.reply.val[f][1]) > 0

\* C24: resolve_paper fails with cannot-resolve, carrying the trimmed
\* input, exactly when zotero_key, openalex_id, doi and title are all unset
\* after all steps; an entry it returns has at least one of the four.
C24_CannotResolveExactly ==
    Resolved =>
        /\ (query.res.reply = CannotResolve(query.core)) <=> NothingResolved(query.res.entry)
        /\ query.res.reply.ok =>
              /\ query.res.reply.val = query.res.entry
              /\ ~NothingResolved(query.res.reply.val)
        /\ ~query.res.reply.ok => query.res.reply = CannotResolve(query.core)

\* a padded free text that neither service knows
C24_Witness ==
    /\ Resolved
    /\ query.raw = Chars(" deep learning ")
    /\ query.world.zotero
    /\ Len(query.res.calls) = 2
    /\ query.res.reply = CannotResolve(Chars("deep learning"))

\* C25: a failure of the scholarly lookup or of the reference-manager
\* lookup of the first step is returned to the caller as it is; a failure
\* of the DOI retry, and a missing reference-manager client, raise nothing.
C25_UpstreamPropagated ==
    Resolved =>
        /\ \A i \in 1..Len(query.res.calls) :
              (/\ query.res.calls[i].call # "retry"
               /\ ~query.res.calls[i].reply.ok
               /\ query.res.calls[i].reply.err = "Upstream")
                 => query.res.reply = query.res.calls[i].reply
        /\ (\A i \in 1..Len(query.res.calls) :
               query.res.calls[i].call # "retry" => query.res.calls[i].reply.ok)
              => (query.res.reply.ok \/ query.res.reply.err = "CannotResolve")

IsFreeText(input) ==
    /\ ~looks_like_zotero_key(input)
    /\ ~looks_like_doi(input)
    /\ ~looks_like_openalex_work_id(input)

\* C26: for a free text with a reference-manager client, the text search is
\* issued with limit 1 and the first step takes the key and the metadata of
\* the found item only when exactly one library item matches the text;
\* with several matches or none it sets nothing.
C26_FreeTextExactlyOne ==
    (Resolved /\ IsFreeText(query.core) /\ query.world.zotero) =>
        /\ query.res.calls[1].call = "text_search"
        /\ query.res.calls[1].limit = 1
        /\ IF ~query.world.z_fails /\ Len(query.world.z_matches) = 1
           THEN query.res.step1.zotero_key = Some(query.world.z_matches[1].key)
           ELSE query.res.step1 = NoEntry

MergedFields == {"title", "authors", "year", "doi", "issn", "isbn"}

\* C27: the scholarly merge leaves every field the reference-manager step
\* populated as it was, and sets openalex_id to the work identifier without
\* its https://openalex.org/ prefix.
C27_MergeFillsUnfilled ==
    (Resolved /\ query.res.oa_work # None) =>
        /\ \A f \in MergedFields :
              query.res.step1[f] # None => query.res.merged[f] = query.res.step1[f]
        /\ query.res.merged.zotero_key = query.res.step1.zotero_key
        /\ query.res.merged.openalex_id # None
        /\ ~starts_with(query.res.merged.openalex_id[1], OpenAlexUrl)
        /\ query.res.oa_work[1].id \in { query.res.merged.openalex_id[1],
                                         OpenAlexUrl \o query.res.merged.openalex_id[1] }

\* a library item with a title and a work with another title and a wrapped id
C27_Witness ==
    /\ Resolved
    /\ query.res.step1.title = Some("Zotero Title")
    /\ query.res.oa_work = Some(WorkFull)
    /\ query.res.merged.title = Some("Zotero Title")
    /\ query.res.merged.openalex_id = Some(Chars("W2741"))
    /\ query.res.merged.issn = Some(<<Chars("1234-5678")>>)

Retries == {i \in 1..Len(query.res.calls) : query.res.calls[i].call = "retry"}

\* C28: the reference manager is searched once more, by the bare DOI,
\* exactly when the first step set no zotero_key and the scholarly step
\* produced a DOI; a found item gives its key and, if isbn is unset, its
\* ISBN, and nothing else changes; a failed or empty search changes nothing
\* and raises no error.
C28_DoiRetry ==
    Resolved =>
        /\ Cardinality(Retries) <= 1
        /\ Retries # {} <=> /\ query.world.zotero
                            /\ query.res.step1.zotero_key = None
                            /\ query.res.oa_work # None
                            /\ query.res.merged.doi # None
        /\ Retries = {} => query.res.entry = query.res.merged
        /\ \A i \in Retries :
              LET made == query.res.calls[i]
                  doi == query.res.merged.doi[1]
              IN  /\ made.q = strip_doi_prefix(doi)
                  /\ made.limit = 1
                  /\ i = Len(query.res.calls)
                  /\ IF made.reply.ok /\ made.reply.val # <<>>
                     THEN LET item == made.reply.val[1]
                          IN  query.res.entry =
                                [query.res.merged EXCEPT
                                    !.zotero_key = Some(item.key),
                                    !.isbn = IF @ = None /\ item.isbn # None
                                                /\ item.isbn[1] # <<>>
                                             THEN Some(<<item.isbn[1]>>) ELSE @]
                     ELSE /\ query.res.entry = query.res.merged
                          /\ query.res.reply = OkOf(query.res.merged)

\* a work known by DOI only, and the retry finding a library item that has
\* a title and an ISBN
C28_Witness ==
    /\ Resolved
    /\ query.res.oa_work = Some(WorkDoiOnly)
    /\ Retries # {}
    /\ query.res.entry.zotero_key = Some(Chars("LF4MJWZK"))
    /\ query.res.entry.isbn = Some(<<Chars("978-0")>>)
    /\ query.res.entry.title = None

-----------------------------------------------------------------------------
(* server.rs: selection_add, one call at a time *)

WorkUpperDoi ==
    [ id |-> Chars("W7"), doi |-> Some(Chars("https://doi.org/10.1/X")),
      display_name |-> Some("Upper"), title |-> None, authorships |-> None,
      publication_year |-> None, source_issn |-> None ]

\* the calls of the adds: the input and what the services hold for it
NoMatch ==
    [ zotero |-> TRUE, z_matches |-> <<>>, z_fails |-> FALSE, r_matches |-> <<>>,
      r_fails |-> FALSE, oa_work |-> None, oa_fails |-> FALSE ]

AddCalls ==
    { <<Chars("LF4MJWZK"), [NoMatch EXCEPT !.z_matches = <<ItemFull>>]>>,
      <<Chars("LF4MJWZK"), [NoMatch EXCEPT !.z_matches = <<ItemFull>>,
                                           !.oa_work = Some(WorkDoiOnly)]>>,
      <<Chars("10.1/x"), [NoMatch EXCEPT !.oa_work = Some(WorkFull)]>>,
      <<Chars("10.1/x"), [NoMatch EXCEPT !.oa_work = Some(WorkUpperDoi)]>>,
      <<Chars("deep learning"), [NoMatch EXCEPT !.z_matches = <<ItemBare>>,
                                                !.oa_work = Some(WorkFull)]>>,
      <<Chars("deep learning"), [NoMatch EXCEPT !.oa_work = Some(WorkDoiOnly)]>>,
      <<Chars("deep learning"), NoMatch>> }

AddedTo == Chars("a")

\* the is_dup closure of selection_add
is_dup(entries, entry) ==
    \E i \in 1..Len(entries) :
        \/ entry.zotero_key # None /\ entry_matches_key(entries[i], entry.zotero_key[1])
        \/ entry.openalex_id # None /\ entry_matches_openalex(entries[i], entry.openalex_id[1])
        \/ entry.doi # None /\ entry_matches_doi(entries[i], entry.doi[1])

SaveOutcomes == {"saved", "create_fails", "rename_fails"}

\* the directory after one uninterrupted atomic_write: the target replaced,
\* nothing changed, or the temporary file left behind
atomic_write(dir, path, content, outcome) ==
    IF outcome = "saved" THEN Link(Unlink(dir, atomic_write_tmp(path)), path, content)
    ELSE IF outcome = "rename_fails" THEN Link(dir, atomic_write_tmp(path), content)
    ELSE dir

InvalidName(name) == [ok |-> FALSE, err |-> "InvalidName", name |-> name]

\* validate_name that takes any string
validate_name_any(name) == TRUE

\* validate_name: non-empty, only letters, digits, '-' and '_'
validate_name(name) ==
    /\ name # <<>>
    /\ \A i \in 1..Len(name) :
          \/ \E k \in 1..26 : name[i] \in {UpperCase[k], LowerCase[k]}
          \/ is_ascii_digit(name[i])
          \/ name[i] \in {"-", "_"}

\* selection_create: the name must be valid and new; the empty selection is
\* saved and made the active one; each of the two writes ends as one of
\* `outcomes`
SelectionCreateWith(name, outcomes) ==
    /\ SelReady(1)
    /\ LET path == selection_path(name)
           exists == /\ path \in DOMAIN files.dir
                     /\ selection_from_json(files.dir[path]).ok
           empty == [name |-> name, entries |-> <<>>]
           called == [op |-> "selection_create", raw |-> name, before |-> None,
                      reply |-> Pending]
       IN  IF ~validate_name(name)
           THEN /\ query' = [called EXCEPT !.reply = InvalidName(name)]
                /\ UNCHANGED files
           ELSE IF exists
           THEN /\ query' = [called EXCEPT !.reply = [ok |-> FALSE, err |-> "AlreadyExists"]]
                /\ UNCHANGED files
           ELSE \E saved \in outcomes, activated \in outcomes :
                   LET dir == atomic_write(files.dir, path, selection_json(empty), saved)
                   IN  IF saved # "saved"
                       THEN /\ query' = [called EXCEPT !.reply = IoErr]
                            /\ files' = [files EXCEPT !.dir = dir]
                       ELSE /\ query' = [called EXCEPT !.reply =
                                            IF activated = "saved" THEN OkUnit ELSE IoErr]
                            /\ files' = [files EXCEPT
                                  !.dir = atomic_write(dir, state_path,
                                             state_json([active |-> Some(name)]), activated),
                                  !.last = IF name \in DOMAIN @
                                           THEN [@ EXCEPT ![name] = Some(empty)] ELSE @]
    /\ UNCHANGED <<sel, walk_vars, store_vars>>

SelectionCreate(name) == SelectionCreateWith(name, SaveOutcomes)

\* selection_add with the selection named: resolve the name, resolve the
\* paper, load the selection, and save it with the entry unless it is a
\* duplicate
SelectionAdd(raw, world) ==
    /\ SelReady(1)
    /\ \E name \in {resolve_selection(files.dir, AddedTo)},
          entry \in {resolve_paper(raw, world).reply} :
          \E path \in {IF name.ok THEN selection_path(name.val) ELSE Orphan} :
          \E loaded \in {IF ~name.ok THEN name
                          ELSE IF path \in DOMAIN files.dir
                          THEN selection_from_json(files.dir[path])
                          ELSE SelNotFound(name.val)},
             called \in {[op |-> "selection_add", raw |-> raw,
                          before |-> IF name.ok /\ path \in DOMAIN files.dir
                                     THEN Some(files.dir[path]) ELSE None,
                          reply |-> Pending]} :
             IF ~name.ok \/ ~entry.ok \/ ~loaded.ok
             THEN /\ query' = [called EXCEPT !.reply = IF ~name.ok THEN name
                                                       ELSE IF ~entry.ok THEN entry ELSE loaded]
                  /\ UNCHANGED files
             ELSE IF is_dup(loaded.val.entries, entry.val)
             THEN /\ query' = [called EXCEPT !.reply = entry]
                  /\ UNCHANGED files
             ELSE \E saved \in {[loaded.val EXCEPT !.entries = Append(@, entry.val)]},
                     outcome \in SaveOutcomes :
                     /\ query' = [called EXCEPT
                                     !.reply = IF outcome = "saved" THEN entry ELSE IoErr]
                     /\ files' = [files EXCEPT
                           !.dir = atomic_write(@, path, selection_json(saved), outcome),
                           !.last[name.val] = IF outcome = "saved" THEN Some(saved) ELSE @]
    /\ UNCHANGED <<sel, walk_vars, store_vars>>

NextAdd ==
    \/ SelectionCreate(AddedTo)
    \/ \E call \in AddCalls : SelectionAdd(call[1], call[2])

SpecAdd == InitSeq /\ [][NextAdd]_vars

\* the entries of the selection on disk
EntriesOnDisk ==
    IF selection_path(AddedTo) \in DOMAIN files.dir
    THEN selection_from_json(files.dir[selection_path(AddedTo)]).val.entries
    ELSE <<>>

SameIdentity(a, b) ==
    \/ a.zotero_key # None /\ a.zotero_key = b.zotero_key
    \/ a.openalex_id # None /\ a.openalex_id = b.openalex_id
    \/ a.doi # None /\ b.doi # None /\ normalize_doi(a.doi[1]) = normalize_doi(b.doi[1])

\* C22: after any sequence of selection_add calls on a selection created
\* empty, no two of its entries share a zotero_key, an openalex_id or a
\* normalized DOI, and an add whose resolved entry matches an entry already
\* there on one of the three leaves the selection file as it was.
C22_AddDeduplicates ==
    /\ \A i, j \in 1..Len(EntriesOnDisk) :
          i < j => ~SameIdentity(EntriesOnDisk[i], EntriesOnDisk[j])
    /\ (query.op = "selection_add" /\ query.reply.ok /\ query.before # None) =>
          LET was == selection_from_json(query.before[1]).val.entries
          IN  (\E i \in 1..Len(was) : SameIdentity(was[i], query.reply.val))
                 => files.dir[selection_path(AddedTo)] = query.before[1]

\* two entries on disk, and an add of a third whose DOI differs from an
\* entry's only in case, with another key and another work id
C22_Witness ==
    /\ query.op = "selection_add"
    /\ query.reply.ok
    /\ Len(EntriesOnDisk) >= 2
    /\ files.dir[selection_path(AddedTo)] = query.before[1]
    /\ query.reply.val.doi = Some(Chars("10.1/X"))
    /\ \A i \in 1..Len(EntriesOnDisk) :
          /\ EntriesOnDisk[i].zotero_key # query.reply.val.zotero_key
          /\ EntriesOnDisk[i].openalex_id # query.reply.val.openalex_id
          /\ EntriesOnDisk[i].doi # query.reply.val.doi

-----------------------------------------------------------------------------
(* server.rs: rag_search, rag_search_figures and rag_list_papers scoped to  *)
(* a selection; the store is filled first, then the tools are called one at *)
(* a time                                                                   *)

\* e.doi.iter().chain(e.openalex_id.iter()).chain(e.zotero_key.iter())
RECURSIVE entry_ids(_)
entry_ids(entries) ==
    IF entries = <<>> THEN <<>>
    ELSE Head(entries).doi \o Head(entries).openalex_id \o Head(entries).zotero_key
         \o entry_ids(Tail(entries))

resolve_selection_paper_ids(dir, selection) ==
    LET path == selection_path(selection)
        loaded == IF path \in DOMAIN dir THEN selection_from_json(dir[path])
                  ELSE SelNotFound(selection)
    IN  IF loaded.ok THEN OkOf(entry_ids(loaded.val.entries)) ELSE loaded

\* the nearest-neighbor query of search_figures: up to limit of the figure
\* rows that pass the predicate
search_figures(params) ==
    LET rows == SelectSeq(figures_tbl, LAMBDA r : passes_ids(r, params.paper_ids))
    IN  { OkOf([i \in 1..(IF Len(nearest) < params.limit THEN Len(nearest)
                          ELSE params.limit) |->
                  [ figure_id |-> nearest[i].figure_id,
                    paper_id |-> nearest[i].paper_id,
                    figure_type |-> nearest[i].figure_type,
                    caption |-> nearest[i].caption ]]) :
          nearest \in YieldOrders(rows) }

KeyedPaper == Chars("LF4MJWZK")

ScopedParams == {Params("K1", KeyedPaper), Params("K2", PaperQ)}

ScopedAddCall == <<KeyedPaper, [NoMatch EXCEPT !.z_matches = <<ItemFull>>]>>

ScopedSelections == {AddedTo, Chars("b")}

\* limit: p.limit.unwrap_or(5)
ScopedLimit == 5

StartScopedIngest ==
    /\ query = IdleQuery
    /\ hist.n_calls < MaxQueryIngests
    /\ \E params \in ScopedParams : Start(1, params, DocTextFigure)

ToolReady == SelReady(1) /\ calls[1].pc \in {"idle", "returned"}

ScopedCreate == ToolReady /\ SelectionCreate(AddedTo)

ScopedAdd == ToolReady /\ SelectionAdd(ScopedAddCall[1], ScopedAddCall[2])

\* a tool that resolves the selection, then runs its query: the selection
\* error or any failure of the store or the embedder is returned
ScopedReply(op, selection, params_of(_), results(_), failures) ==
    \E ids \in {resolve_selection_paper_ids(files.dir, selection)} :
        \E reply \in (IF ids.ok THEN failures \cup results(params_of(ids.val))
                       ELSE {ids}) :
            query' = [op |-> op, args |-> [selection |-> selection], pc |-> "returned",
                      reply |-> reply]

RagSearchParams(ids) ==
    [ query |-> "q", paper_ids |-> Some(ids), chapter_idx |-> None, section_idx |-> None,
      filter_year_min |-> None, filter_year_max |-> None, limit |-> ScopedLimit ]

RagFiguresParams(ids) == [query |-> "q", paper_ids |-> Some(ids), limit |-> ScopedLimit]

RagListParams(ids) ==
    [ paper_ids |-> Some(ids), filter_year_min |-> None, filter_year_max |-> None,
      sort_by |-> None, limit |-> 50 ]

RagSearch ==
    /\ ToolReady
    /\ \E selection \in ScopedSelections :
          ScopedReply("rag_search", selection, RagSearchParams, search_query,
                      {EmbedErr, StoreErr})
    /\ UNCHANGED <<walk_vars, store_vars, sel_vars>>

RagSearchFigures ==
    /\ ToolReady
    /\ \E selection \in ScopedSelections :
          ScopedReply("rag_search_figures", selection, RagFiguresParams, search_figures,
                      {EmbedErr, StoreErr})
    /\ UNCHANGED <<walk_vars, store_vars, sel_vars>>

RagListPapers ==
    /\ ToolReady
    /\ \E selection \in ScopedSelections :
          ScopedReply("rag_list_papers", selection, RagListParams, list_papers, {StoreErr})
    /\ UNCHANGED <<walk_vars, store_vars, sel_vars>>

NextScoped ==
    \/ StartScopedIngest
    \/ DeleteChunks(1)
    \/ DeleteFigures(1)
    \/ EmbedChunks(1)
    \/ EmbedFigures(1)
    \/ InsertChunks(1)
    \/ InsertFigures(1)
    \/ ScopedCreate
    \/ ScopedAdd
    \/ RagSearch
    \/ RagSearchFigures
    \/ RagListPapers

SpecScoped == InitSeq /\ [][NextScoped]_vars

\* the identifiers of the entries of the selection a tool was scoped to
ScopeIdsOnDisk ==
    LET path == selection_path(query.args.selection)
        entries == selection_from_json(files.dir[path]).val.entries
    IN  UNION {{entries[i][f][1] : f \in {g \in {"doi", "openalex_id", "zotero_key"} :
                                             entries[i][g] # None}} :
               i \in 1..Len(entries)}

ReturnedPaperIds ==
    IF query.op = "rag_search"
    THEN {query.reply.val[i].chunk.paper_id : i \in 1..Len(query.reply.val)}
    ELSE {query.reply.val[i].paper_id : i \in 1..Len(query.reply.val)}

ScopedReturned ==
    /\ query.op \in {"rag_search", "rag_search_figures", "rag_list_papers"}
    /\ query.reply.ok

\* C35: every row returned by rag_search, rag_search_figures or
\* rag_list_papers scoped to a selection has for paper_id one of the
\* identifiers (doi, openalex_id or zotero_key) of the selection's entries;
\* a selection without entries returns nothing.
C35_ScopedToSelection ==
    ScopedReturned => ReturnedPaperIds \subseteq ScopeIdsOnDisk

-----------------------------------------------------------------------------
(* server.rs: selection_create over valid and invalid names *)

CreateNames == {Chars("a"), Chars("B"), Chars("2"), Chars("state"), Chars("a b"), <<>>}

CreateAny == \E name \in CreateNames : SelectionCreate(name)

NextCreate == CreateAny

SpecCreate == InitSeq /\ [][NextCreate]_vars

\* load_selection on the directory as it is
load_selection(dir, name) ==
    IF selection_path(name) \in DOMAIN dir THEN selection_from_json(dir[selection_path(name)])
    ELSE SelNotFound(name)

Listed(name) ==
    \E i \in 1..Len(list_selection_names(files.dir)) :
        list_selection_names(files.dir)[i] = name

\* C36: after selection_create(name) succeeds, for any name validate_name
\* accepts, list_selection_names() contains the name, load_selection(name)
\* returns a selection with that name and no entries, and the file of the
\* active-selection state is another file than the selection's.
C36_CreatedIsListed ==
    (query.op = "selection_create" /\ query.reply.ok) =>
        /\ validate_name(query.raw)
        /\ Listed(query.raw)
        /\ load_selection(files.dir, query.raw) =
              OkOf([name |-> query.raw, entries |-> <<>>])
        /\ state_path # selection_path(query.raw)

-----------------------------------------------------------------------------
(* server.rs: selection_create, selection_get and selection_delete one at a
   time, every write and removal succeeding *)

\* load_state on the directory as it is
load_state(dir) ==
    IF state_path \in DOMAIN dir THEN state_from_json(dir[state_path]) ELSE DefaultState

\* the names the tools are called with: names to create, two of them differing
\* by letter case only and one made of a digit, and for get and delete also an
\* index
ActiveNames == {Chars("a"), Chars("B"), Chars("b"), Chars("2"), Chars("state")}

ActiveInputs == ActiveNames \cup {Chars("1")}

NoActive == [ok |-> FALSE, err |-> "NoActiveSelection"]

\* selection_get: the named selection, or the active one, is loaded and made
\* the active one; the result of save_state is dropped
SelectionGet(input) ==
    /\ SelReady(1)
    /\ \E name \in {IF input = None
                    THEN IF load_state(files.dir).active = None THEN NoActive
                         ELSE OkOf(load_state(files.dir).active[1])
                    ELSE resolve_selection(files.dir, input[1])} :
       \E loaded \in {IF name.ok THEN load_selection(files.dir, name.val) ELSE name},
          called \in {[op |-> "selection_get", raw |-> input, before |-> None,
                       reply |-> Pending]} :
          IF ~loaded.ok
          THEN /\ query' = [called EXCEPT !.reply = loaded]
               /\ UNCHANGED files
          ELSE /\ query' = [called EXCEPT !.reply =
                               OkOf([name |-> loaded.val.name, is_active |-> TRUE,
                                     entries |-> loaded.val.entries])]
               /\ files' = [files EXCEPT !.dir =
                               atomic_write(@, state_path,
                                            state_json([active |-> Some(name.val)]), "saved")]
    /\ UNCHANGED <<sel, walk_vars, store_vars>>

\* selection_delete: the resolved selection's file is removed, and the active
\* name is cleared when it was that selection
SelectionDelete(input) ==
    /\ SelReady(1)
    /\ \E name \in {resolve_selection(files.dir, input)},
          called \in {[op |-> "selection_delete", raw |-> input, before |-> None,
                       reply |-> Pending]} :
          IF ~name.ok
          THEN /\ query' = [called EXCEPT !.reply = name]
               /\ UNCHANGED files
          ELSE \E was_active \in {load_state(files.dir).active = Some(name.val)} :
               IF selection_path(name.val) \notin DOMAIN files.dir
               THEN /\ query' = [called EXCEPT !.reply = SelNotFound(name.val)]
                    /\ UNCHANGED files
               ELSE /\ query' = [called EXCEPT !.reply =
                                    OkOf([name |-> name.val, was_active |-> was_active])]
                    /\ files' = [files EXCEPT
                          !.dir = IF was_active
                                  THEN atomic_write(Unlink(@, selection_path(name.val)),
                                                    state_path,
                                                    state_json([active |-> None]), "saved")
                                  ELSE Unlink(@, selection_path(name.val)),
                          !.last = IF name.val \in DOMAIN @
                                   THEN [@ EXCEPT ![name.val] = None] ELSE @]
    /\ UNCHANGED <<sel, walk_vars, store_vars>>

ActiveCreate == \E name \in ActiveNames : SelectionCreateWith(name, {"saved"})

ActiveGet == \E input \in {None} \cup {Some(n) : n \in ActiveInputs} : SelectionGet(input)

ActiveDelete == \E input \in ActiveInputs : SelectionDelete(input)

NextActive == ActiveCreate \/ ActiveGet \/ ActiveDelete

SpecActive == InitSeq /\ [][NextActive]_vars

\* C37: after selection_create, selection_get and selection_delete calls run
\* one at a time without I/O failure, the active name in state.json is null
\* or names a selection that is listed, whose file is on disk and which
\* load_selection loads.
C37_ActiveExists ==
    LET active == load_state(files.dir).active
    IN  active # None =>
            /\ Listed(active[1])
            /\ selection_path(active[1]) \in DOMAIN files.dir
            /\ load_selection(files.dir, active[1]).ok

\* the names list_selection_names() returns that equal `name` when letter case
\* is ignored, by their place in the list
SameIgnoringCase(names, name) ==
    {i \in 1..Len(names) : to_lowercase(names[i]) = to_lowercase(name)}

\* C38 as claimed: resolve_selection(n) returns n itself for every name n in
\* list_selection_names(), names made only of digits and names that differ
\* from another listed name only by letter case included.
C38_ResolveIsIdentity ==
    LET names == list_selection_names(files.dir)
    IN  \A i \in 1..Len(names) :
            resolve_selection(files.dir, names[i]) = OkOf(names[i])

\* C38 as the code has it: a listed name n made only of digits is read as a
\* 1-based index into list_selection_names(); any other listed name n resolves
\* to the first listed name that equals n when letter case is ignored, which
\* is n itself when no other listed name does.
C38_ResolveIndexThenFirstMatch ==
    LET names == list_selection_names(files.dir)
    IN  \A i \in 1..Len(names) :
            LET n == names[i]
                idx == parse_usize(n)
                same == SameIgnoringCase(names, n)
                resolved == resolve_selection(files.dir, n)
            IN  IF idx # None
                THEN resolved = IF idx[1] = 0 \/ idx[1] > Len(names) THEN SelNotFound(n)
                                ELSE OkOf(names[idx[1]])
                ELSE /\ resolved.ok
                     /\ \E k \in same : /\ resolved.val = names[k]
                                        /\ \A j \in same : k <= j
                     /\ same = {i} => resolved.val = n

\* selection_get("b") has opened the selection B while b is listed as well,
\* and selection_get("2") a selection other than the listed 2
C38_Witness ==
    /\ query.op = "selection_get"
    /\ query.reply.ok
    /\ \/ /\ query.raw = Some(Chars("b"))
          /\ Listed(Chars("b"))
          /\ query.reply.val.name = Chars("B")
       \/ /\ query.raw = Some(Chars("2"))
          /\ Listed(Chars("2"))
          /\ query.reply.val.name # Chars("2")

-----------------------------------------------------------------------------
(* server.rs: two selection_add calls on one selection, step by step *)

\* selection_add up to its awaits: the selection's name and the paper are
\* resolved
AddResolve(self, raw, world) ==
    /\ sel[self].pc = "idle"
    /\ \E name \in {resolve_selection(files.dir, AddedTo)},
          entry \in {resolve_paper(raw, world).reply} :
          sel' = [sel EXCEPT ![self] =
             IF ~name.ok
             THEN [Caller("returned", "selection_add", AddedTo, Orphan) EXCEPT !.result = name]
             ELSE IF ~entry.ok
             THEN [Caller("returned", "selection_add", name.val, selection_path(name.val))
                      EXCEPT !.result = entry]
             ELSE [Caller("resolved", "selection_add", name.val, selection_path(name.val))
                      EXCEPT !.value = Some(entry.val)]]
    /\ UNCHANGED <<files, walk_vars, store_vars, query_vars>>

\* load_selection, the is_dup test and the push of the entry
AddLoad(self) ==
    /\ sel[self].pc = "resolved"
    /\ \E loaded \in {load_selection(files.dir, sel[self].name)} :
          sel' = [sel EXCEPT ![self] =
             IF ~loaded.ok THEN [@ EXCEPT !.pc = "returned", !.result = loaded]
             ELSE IF is_dup(loaded.val.entries, sel[self].value[1])
             THEN [@ EXCEPT !.pc = "returned", !.result = OkOf(sel[self].value[1])]
             ELSE [@ EXCEPT !.pc = "loaded",
                            !.seen = Some(loaded.val),
                            !.content = selection_json(
                                [loaded.val EXCEPT !.entries = Append(@, sel[self].value[1])])]]
    /\ UNCHANGED <<files, walk_vars, store_vars, query_vars>>

\* save_selection, atomic_write line 213: the temporary file is written
AddWriteTmp(self) ==
    /\ sel[self].pc = "loaded"
    /\ sel' = [sel EXCEPT ![self].pc = "written"]
    /\ files' = [files EXCEPT
          !.dir = Link(@, atomic_write_tmp(sel[self].path), sel[self].content)]
    /\ UNCHANGED <<walk_vars, store_vars, query_vars>>

\* save_selection, atomic_write line 214: the temporary file is renamed over
\* the selection's file, which fails when another caller has renamed it away
AddRename(self) ==
    /\ sel[self].pc = "written"
    /\ \E tmp \in {atomic_write_tmp(sel[self].path)} :
          IF tmp \notin DOMAIN files.dir
          THEN /\ sel' = [sel EXCEPT ![self].pc = "returned", ![self].result = IoErr]
               /\ UNCHANGED files
          ELSE /\ sel' = [sel EXCEPT ![self].pc = "returned",
                                     ![self].result = OkOf(sel[self].value[1]),
                                     ![self].installed = Some(files.dir[tmp])]
               /\ files' = [files EXCEPT
                     !.dir = Link(Unlink(@, tmp), sel[self].path, files.dir[tmp]),
                     !.last[sel[self].name] = Some(selection_from_json(files.dir[tmp]).val)]
    /\ UNCHANGED <<walk_vars, store_vars, query_vars>>

\* the selection is created before any caller has started
CreateAdded ==
    /\ \A p \in Procs : sel[p].pc = "idle"
    /\ SelectionCreateWith(AddedTo, {"saved"})

AddStep ==
    \E self \in Procs :
        \/ \E call \in AddCalls : AddResolve(self, call[1], call[2])
        \/ AddLoad(self)
        \/ AddWriteTmp(self)
        \/ AddRename(self)

NextAddConc == CreateAdded \/ AddStep

SpecAddConc == InitSeq /\ [][NextAddConc]_vars

\* both calls have returned success, for two papers neither of which is a
\* duplicate of the other
BothAdded ==
    /\ \A p \in Procs : /\ sel[p].pc = "returned"
                        /\ sel[p].op = "selection_add"
                        /\ sel[p].result.ok
    /\ ~is_dup(<<sel[1].result.val>>, sel[2].result.val)
    /\ ~is_dup(<<sel[2].result.val>>, sel[1].result.val)

\* C39: when two selection_add calls for two different papers on the same
\* selection both return success, the selection file afterwards contains
\* both entries, under every interleaving of their load and save steps.
C39_BothEntriesKept ==
    BothAdded =>
        \A p \in Procs : \E i \in 1..Len(EntriesOnDisk) : EntriesOnDisk[i] = sel[p].result.val

-----------------------------------------------------------------------------
(* query.rs: list_papers called twice on an unchanged store *)

\* the paper_ids of a list_papers result, in its order
PaperIdsOf(reply) == [i \in 1..Len(reply.val) |-> reply.val[i].paper_id]

\* C40: list_papers is deterministic: after a call has returned its papers,
\* another call with the same parameters on the unchanged store returns the
\* same paper_ids in the same order, also when papers tie on the sort key and
\* limit is smaller than the number of matching papers.
C40_ListPapersDeterministic ==
    (query.op = "list_papers" /\ query.reply.ok) =>
        \A again \in list_papers(query.args) : PaperIdsOf(again) = PaperIdsOf(query.reply)

====
